---- MODULE Spec2Model ----
(***************************************************************************)
(* ChartPredictor: the prediction, trading-signal and backtesting code of  *)
(* src/src/core/predictor.py, with the configuration of                    *)
(* src/src/config/settings.py.                                             *)
(*                                                                         *)
(* Numbers.  Python floats are modelled by exact scaled integers:          *)
(*   prices              in cents (1/100)                                  *)
(*   confidence          in hundredths (0.6 is 60)                         *)
(*   risk_reward_ratio   in hundredths (1.5 is 150)                        *)
(*   max_risk_per_trade  in thousandths (0.02 is 20)                       *)
(*   Volume_Ratio        in tenths (1.2 is 12)                             *)
(* round(x, 2) is the nearest hundredth; where the exact value lies half   *)
(* way between two hundredths the binary float decides the side, so both   *)
(* sides are possible outcomes (RoundChoices).                             *)
(*                                                                         *)
(* Optional values: None is the empty tuple, a present value v is <<v>>.   *)
(* A dict is a function whose DOMAIN is the set of keys present.           *)
(***************************************************************************)
EXTENDS Integers, Sequences, FiniteSets, TLC

VARIABLES
    technical_analysis,  \* Dict[str, Any]: the indicator set
    price_levels,        \* ChartData.price_levels
    trading_config,      \* AppSettings.trading_config
    prediction_horizon,  \* AppSettings.ml_model_config.prediction_horizon
    prediction,          \* the Prediction handed to / returned by the predictor
    votes,               \* locals of predict_price_movement: the vote of each group
    bullish_signals,     \* local of predict_price_movement
    bearish_signals,     \* local of predict_price_movement
    base_signal,         \* the TradingSignal as built, before the filters
    signal,              \* the TradingSignal returned
    actual_data,         \* the bars handed to backtest_prediction (close prices)
    simulation,          \* the predictions, outcomes and trades of a backtest simulation
    backtest_results,    \* the report returned by backtest_prediction
    pc                   \* position in the call sequence

predictorVars ==
    <<technical_analysis, price_levels, trading_config, prediction_horizon,
      prediction, votes, bullish_signals, bearish_signals, base_signal,
      signal, actual_data, simulation, backtest_results>>

VARIABLES
    ohlc_data,           \* ChartData.ohlc_data: the bars of the chart
    tech_config,         \* AppSettings.technical_config as ChartExtractor holds it
    TALIB_AVAILABLE,     \* chart_extractor.TALIB_AVAILABLE, fixed at import
    raising,             \* the indicator family whose library call raises, or "none"
    indicators,          \* the map returned by calculate_technical_indicators
    patterns,            \* the list returned by detect_patterns
    detectors_run,       \* the detectors detect_patterns has called
    validation_results   \* the dict returned by validate_extracted_data

chartVars ==
    <<ohlc_data, tech_config, TALIB_AVAILABLE, raising, indicators, patterns,
      detectors_run, validation_results>>

VARIABLES
    app_settings,        \* the AppSettings objects: name -> the configs they refer to
    configs,             \* the configuration objects: id -> their field values
    dialog,              \* the SettingsDialog: open or not, and its widgets
    workers,             \* the LiveDataWorker threads started, in order
    controls_enabled,    \* fetch button and symbol, timeframe, period inputs
    current_analysis,    \* MainWindow.current_analysis: the request it is the result of
    requests_left        \* the analyses the user will still ask for

guiVars ==
    <<app_settings, configs, dialog, workers, controls_enabled, current_analysis,
      requests_left>>

vars == <<predictorVars, pc, chartVars, guiVars>>

(***************************************************************************)
(* Python values                                                           *)
(***************************************************************************)
None == <<>>

Some(v) == <<v>>

Val(o) == o[1]

\* bool(x) of an Optional[float]: None and 0.0 are both false
Truthy(o) == o # None /\ Val(o) # 0

\* dict.get(key): None when the key is absent
Get(d, k) == IF k \in DOMAIN d THEN Some(d[k]) ELSE None

\* dict.get(key, default)
GetDefault(d, k, default) == IF k \in DOMAIN d THEN d[k] ELSE default

RECURSIVE GCD(_, _)
GCD(a, b) == IF b = 0 THEN a ELSE GCD(b, a % b)

\* round(num/den) to the nearest integer unit, num >= 0, den > 0
RoundChoices(num, den) ==
    LET q == num \div den
        r == num % den
    IN  IF 2 * r < den THEN {q}
        ELSE IF 2 * r > den THEN {q + 1}
        ELSE {q, q + 1}

Min(a, b) == IF a < b THEN a ELSE b

Abs(a) == IF a < 0 THEN 0 - a ELSE a

(***************************************************************************)
(* Program constants                                                       *)
(***************************************************************************)
RiskScale == 1000           \* max_risk_per_trade is counted in thousandths
MinRisk == 1                \* ge=0.001
DefaultRisk == 20           \* 0.02
MaxRisk == 100              \* le=0.1
MultScale == 2              \* the multipliers are counted in halves
MinStopMult == 2            \* ge=1.0
DefaultStopMult == 4        \* 2.0
MaxStopMult == 10           \* le=5.0
MinProfitMult == 2          \* ge=1.0
DefaultProfitMult == 6      \* 3.0
MaxProfitMult == 20         \* le=10.0
DefaultHorizon == 24
LookbackWindow == 20        \* lookback_window
MinDataPoints == 30         \* min_data_points
MinBacktestBars == 10       \* len(actual_data) < 10

EntryDen == 50              \* 0.98 = 49/50 and 1.02 = 51/50
BuyEntryNum == 49
SellEntryNum == 51
LowConfidence == 60         \* prediction.confidence < 0.6
StrongConfidence == 80      \* prediction.confidence > 0.8
VolumeThreshold == 12       \* volume_ratio < 1.2

RsiOversold == 30
RsiOverbought == 70
BaseConfidence == 50        \* 0.5
VoteConfidence == 15        \* 0.15 per vote of difference
ConfidenceCap == 90         \* min(0.9, ...)
DefaultCurrentPrice == 15000   \* price_levels.get('current_price', 150.0)
UpTargetPct == 105          \* current_price * 1.05
DownTargetPct == 95         \* current_price * 0.95

MinRsiPeriod == 2           \* ge=2
DefaultRsiPeriod == 14      \* rsi_period
MacdFast == 12              \* macd_periods
MacdSlow == 26
MacdSignal == 9
DefaultBbPeriod == 20       \* bb_period
VolumeWindow == 10          \* len(df) >= 10, rolling(window=10)
StochPeriod == 14           \* len(df) >= 14, k_period
Window == 5                 \* window of the local extrema

(***************************************************************************)
(* Bounds of the model                                                     *)
(***************************************************************************)
MaxPrice == 3               \* moving averages and current prices range over 1..MaxPrice cents
MaxBars == 46               \* series of 0..MaxBars bars
MaxPatternBars == 50        \* detect_patterns: series of 0..MaxPatternBars bars
MaxBreakoutBars == 25       \* _detect_breakouts: series of 20 and of MaxBreakoutBars bars
MaxCandles == 4             \* validate_extracted_data: series of 0..MaxCandles bars
MaxSteps == 4               \* _calculate_backtest_metrics: simulations of 1..MaxSteps steps
MaxRestores == 1            \* RestoreDefaults is confirmed at most MaxRestores times
MaxRequests == 2            \* analyses the user asks for in SpecWindow

Directions == {"UP", "DOWN", "SIDEWAYS"}

FilterKeys == {"trend_confirmation", "volume_confirmation"}

(***************************************************************************)
(* predict_price_movement                                                  *)
(***************************************************************************)
\* "if rsi: if rsi < 30 ... elif rsi > 70 ..."
RSIVote(ta) ==
    LET rsi == Get(ta, "RSI")
    IN  IF Truthy(rsi)
        THEN IF Val(rsi) < RsiOversold THEN "bullish"
             ELSE IF Val(rsi) > RsiOverbought THEN "bearish"
             ELSE "none"
        ELSE "none"

\* "if macd and macd_signal: if macd > macd_signal ... else ..."
MACDVote(ta) ==
    LET macd == Get(ta, "MACD")
        macd_signal == Get(ta, "MACD_Signal")
    IN  IF Truthy(macd) /\ Truthy(macd_signal)
        THEN IF Val(macd) > Val(macd_signal) THEN "bullish" ELSE "bearish"
        ELSE "none"

\* "if ma_9 and ma_21: if ma_9 > ma_21 and current_price > ma_9 ... elif ..."
MAVote(ta, current_price) ==
    LET ma_9 == Get(ta, "MA_9")
        ma_21 == Get(ta, "MA_21")
    IN  IF Truthy(ma_9) /\ Truthy(ma_21)
        THEN IF Val(ma_9) > Val(ma_21) /\ current_price > Val(ma_9) THEN "bullish"
             ELSE IF Val(ma_9) < Val(ma_21) /\ current_price < Val(ma_9) THEN "bearish"
             ELSE "none"
        ELSE "none"

CountVotes(vs, side) == Cardinality({g \in DOMAIN vs : vs[g] = side})

\* variant: a tie decided as UP
DirectionTieUp(bullish, bearish) ==
    IF bullish >= bearish THEN "UP" ELSE "DOWN"

\* "if bullish > bearish: UP elif bearish > bullish: DOWN else: SIDEWAYS"
Direction(bullish, bearish) ==
    IF bullish > bearish THEN "UP"
    ELSE IF bearish > bullish THEN "DOWN"
    ELSE "SIDEWAYS"

\* variant: without the cap at 0.9
ConfidenceUncapped(bullish, bearish) ==
    BaseConfidence + Abs(bullish - bearish) * VoteConfidence

\* "min(0.9, 0.5 + diff * 0.15)", and 0.5 on a tie
Confidence(bullish, bearish) ==
    IF bullish = bearish THEN BaseConfidence
    ELSE Min(ConfidenceCap, BaseConfidence + Abs(bullish - bearish) * VoteConfidence)

\* the unrounded target price, in 1/100 cent
TargetPriceNum(direction, current_price) ==
    IF direction = "UP" THEN current_price * UpTargetPct
    ELSE IF direction = "DOWN" THEN current_price * DownTargetPct
    ELSE current_price * 100

\* "round(target_price, 2) if target_price else None"
TargetPrices(direction, current_price) ==
    LET num == TargetPriceNum(direction, current_price)
    IN  IF num # 0 THEN {Some(t) : t \in RoundChoices(num, 100)} ELSE {None}

PredictionReasoning(direction, bullish, bearish) ==
    IF direction = "UP" THEN <<"Bullish signals", bullish, "Bearish signals", bearish>>
    ELSE IF direction = "DOWN" THEN <<"Bearish signals", bearish, "Bullish signals", bullish>>
    ELSE <<"Equal bullish and bearish signals suggest sideways movement">>

\* variant: a tie has the confidence of the HOLD threshold
PredictionsTieAtThreshold(bullish, bearish, current_price, horizon) ==
    LET direction == Direction(bullish, bearish)
    IN  {[direction |-> direction,
          confidence |-> IF direction = "SIDEWAYS" THEN LowConfidence
                         ELSE Confidence(bullish, bearish),
          target_price |-> t,
          time_horizon |-> <<horizon, "h">>,
          reasoning |-> PredictionReasoning(direction, bullish, bearish)]
         : t \in TargetPrices(direction, current_price)}

\* the Prediction objects built at lines 584-590
Predictions(bullish, bearish, current_price, horizon) ==
    LET direction == Direction(bullish, bearish)
    IN  {[direction |-> direction,
          confidence |-> Confidence(bullish, bearish),
          target_price |-> t,
          time_horizon |-> <<horizon, "h">>,
          reasoning |-> PredictionReasoning(direction, bullish, bearish)]
         : t \in TargetPrices(direction, current_price)}

(***************************************************************************)
(* generate_trading_signals                                                *)
(***************************************************************************)
HoldSignal(strength, reasoning) ==
    [action |-> "HOLD", strength |-> strength,
     entry_price |-> None, stop_loss |-> None, take_profit |-> None,
     risk_reward_ratio |-> 0, reasoning |-> reasoning]

\* "round(p, 2) if p else None" of the price num/(EntryDen*RiskScale) cents
RoundedPrice(p) ==
    IF Truthy(p) THEN {Some(x) : x \in RoundChoices(Val(p), EntryDen * RiskScale)}
    ELSE {None}

\* variant: the risk over the reward
RoundedRatioInverted(a, b) ==
    LET g == GCD(a, b)
    IN  RoundChoices(100 * (b \div g), a \div g)

\* "round(a / b, 2)", a >= 0 and b > 0
RoundedRatio(a, b) ==
    LET g == GCD(a, b)
    IN  RoundChoices(100 * (a \div g), b \div g)

\* variant: a confidence of 0.8 is Strong already
StrengthFromThreshold(p) ==
    IF p.confidence >= StrongConfidence THEN "Strong" ELSE "Medium"

\* "Strong" if prediction.confidence > 0.8 else "Medium"
Strength(p) ==
    IF p.confidence > StrongConfidence THEN "Strong" ELSE "Medium"

\* max_risk_per_trade * multiplier, in thousandths: a whole number of them
\* for every configuration of the model
RiskTimes(cfg, multiplier) == (cfg.max_risk_per_trade * multiplier) \div MultScale

\* variant: the stop-loss taken with the take-profit multiplier
TradeLevelsWrongMultiplier(p, cfg, entry_num, side) ==
    LET target == p.target_price
        entry_price ==
            IF Truthy(target) THEN Some(Val(target) * entry_num * RiskScale) ELSE None
        stop_loss ==
            IF Truthy(entry_price)
            THEN Some(Val(target) * entry_num
                      * (RiskScale - side * RiskTimes(cfg, cfg.take_profit_multiplier)))
            ELSE None
        take_profit ==
            IF Truthy(entry_price)
            THEN Some(Val(target) * entry_num
                      * (RiskScale + side * RiskTimes(cfg, cfg.take_profit_multiplier)))
            ELSE None
    IN  [entry_price |-> entry_price, stop_loss |-> stop_loss, take_profit |-> take_profit]

\* The unrounded entry, stop-loss and take-profit of a trade, as numerators
\* over EntryDen * RiskScale (cents); side is 1 for BUY and -1 for SELL.
TradeLevels(p, cfg, entry_num, side) ==
    LET target == p.target_price
        entry_price ==
            IF Truthy(target) THEN Some(Val(target) * entry_num * RiskScale) ELSE None
        stop_loss ==
            IF Truthy(entry_price)
            THEN Some(Val(target) * entry_num
                      * (RiskScale - side * RiskTimes(cfg, cfg.stop_loss_multiplier)))
            ELSE None
        take_profit ==
            IF Truthy(entry_price)
            THEN Some(Val(target) * entry_num
                      * (RiskScale + side * RiskTimes(cfg, cfg.take_profit_multiplier)))
            ELSE None
    IN  [entry_price |-> entry_price, stop_loss |-> stop_loss, take_profit |-> take_profit]

\* variant: a ratio of 1.0 when a price is missing
RiskRewardDefaultOne(lv, side) ==
    IF Truthy(lv.entry_price) /\ Truthy(lv.stop_loss) /\ Truthy(lv.take_profit)
    THEN RoundedRatio(side * (Val(lv.take_profit) - Val(lv.entry_price)),
                      side * (Val(lv.entry_price) - Val(lv.stop_loss)))
    ELSE {100}

\* "(take_profit - entry_price) / (entry_price - stop_loss)
\*     if entry_price and stop_loss and take_profit else 0.0", rounded;
\* for a SELL both differences change sign
RiskReward(lv, side) ==
    IF Truthy(lv.entry_price) /\ Truthy(lv.stop_loss) /\ Truthy(lv.take_profit)
    THEN RoundedRatio(side * (Val(lv.take_profit) - Val(lv.entry_price)),
                      side * (Val(lv.entry_price) - Val(lv.stop_loss)))
    ELSE {0}

TradeSignals(p, cfg, action, entry_num, side, label) ==
    LET lv == TradeLevels(p, cfg, entry_num, side)
    IN  {[action |-> action, strength |-> Strength(p),
          entry_price |-> e, stop_loss |-> s, take_profit |-> t,
          risk_reward_ratio |-> r,
          reasoning |-> <<label, p.confidence>> \o p.reasoning]
         : e \in RoundedPrice(lv.entry_price),
           s \in RoundedPrice(lv.stop_loss),
           t \in RoundedPrice(lv.take_profit),
           r \in RiskReward(lv, side)}

\* variant: without the test of the confidence
BaseSignalsNoConfidenceGate(p, cfg) ==
    IF p.direction = "UP"
    THEN TradeSignals(p, cfg, "BUY", BuyEntryNum, 1, "Bullish prediction")
    ELSE IF p.direction = "DOWN"
    THEN TradeSignals(p, cfg, "SELL", SellEntryNum, -1, "Bearish prediction")
    ELSE {HoldSignal("Medium", <<"Sideways movement predicted">> \o p.reasoning)}

\* the branch on confidence and direction, lines 600-665
BaseSignals(p, cfg) ==
    IF p.confidence < LowConfidence
    THEN {HoldSignal("Weak", <<"Low prediction confidence">>)}
    ELSE IF p.direction = "UP"
    THEN TradeSignals(p, cfg, "BUY", BuyEntryNum, 1, "Bullish prediction")
    ELSE IF p.direction = "DOWN"
    THEN TradeSignals(p, cfg, "SELL", SellEntryNum, -1, "Bearish prediction")
    ELSE {HoldSignal("Medium", <<"Sideways movement predicted">> \o p.reasoning)}

\* variant: the 50-period average is not compared
_apply_trend_filter_short(sig, ta) ==
    LET ma_9 == Get(ta, "MA_9")
        ma_21 == Get(ta, "MA_21")
        ma_50 == Get(ta, "MA_50")
    IN  IF ~(Truthy(ma_9) /\ Truthy(ma_21) /\ Truthy(ma_50)) THEN sig
        ELSE IF sig.action = "BUY" /\ ~(Val(ma_9) > Val(ma_21))
        THEN [sig EXCEPT !.strength = "Weak"]
        ELSE IF sig.action = "SELL" /\ ~(Val(ma_9) < Val(ma_21))
        THEN [sig EXCEPT !.strength = "Weak"]
        ELSE sig

\* lines 677-696
_apply_trend_filter(sig, ta) ==
    LET ma_9 == Get(ta, "MA_9")
        ma_21 == Get(ta, "MA_21")
        ma_50 == Get(ta, "MA_50")
    IN  IF ~(Truthy(ma_9) /\ Truthy(ma_21) /\ Truthy(ma_50)) THEN sig
        ELSE IF sig.action = "BUY"
             /\ ~(Val(ma_9) > Val(ma_21) /\ Val(ma_21) > Val(ma_50))
        THEN [sig EXCEPT !.strength = "Weak",
                         !.reasoning = @ \o <<"Trend filter: not aligned for uptrend">>]
        ELSE IF sig.action = "SELL"
             /\ ~(Val(ma_9) < Val(ma_21) /\ Val(ma_21) < Val(ma_50))
        THEN [sig EXCEPT !.strength = "Weak",
                         !.reasoning = @ \o <<"Trend filter: not aligned for downtrend">>]
        ELSE sig

\* variant: a confirmed volume upgrades the strength
_apply_volume_filter_upgrading(sig, ta) ==
    LET volume_ratio == Get(ta, "Volume_Ratio")
    IN  IF ~Truthy(volume_ratio) THEN sig
        ELSE IF sig.action \in {"BUY", "SELL"} /\ Val(volume_ratio) >= VolumeThreshold
        THEN [sig EXCEPT !.strength = "Strong"]
        ELSE sig

\* lines 698-714
_apply_volume_filter(sig, ta) ==
    LET volume_ratio == Get(ta, "Volume_Ratio")
    IN  IF ~Truthy(volume_ratio) THEN sig
        ELSE IF sig.action \in {"BUY", "SELL"} /\ Val(volume_ratio) < VolumeThreshold
        THEN [sig EXCEPT !.strength = IF @ = "Strong" THEN "Medium"
                                      ELSE IF @ = "Medium" THEN "Weak" ELSE @,
                         !.reasoning = @ \o <<"Volume filter: below confirmation threshold",
                                              Val(volume_ratio)>>]
        ELSE sig

\* lines 667-672: the filters, each when enabled, trend first
ApplyFilters(sig, ta, cfg) ==
    LET trended ==
            IF GetDefault(cfg.signal_filters, "trend_confirmation", FALSE)
            THEN _apply_trend_filter(sig, ta) ELSE sig
    IN  IF GetDefault(cfg.signal_filters, "volume_confirmation", FALSE)
        THEN _apply_volume_filter(trended, ta) ELSE trended

(***************************************************************************)
(* backtest_prediction                                                     *)
(*                                                                         *)
(* A ratio of the report is the pair <<numerator, denominator>>.  The five *)
(* real-valued aggregates of a non-empty report (profit_loss, avg_win,     *)
(* avg_loss, max_drawdown, sharpe_ratio) are not part of the model.        *)
(***************************************************************************)
Zero == <<0, 1>>

\* _get_empty_backtest_results, lines 917-937
EmptyBacktestResults ==
    [accuracy |-> Zero, total_predictions |-> 0, correct_predictions |-> 0,
     up_accuracy |-> Zero, down_accuracy |-> Zero, precision |-> Zero,
     recall |-> Zero, profit_loss |-> Zero, total_trades |-> 0,
     winning_trades |-> 0, losing_trades |-> 0, win_rate |-> Zero,
     avg_win |-> Zero, avg_loss |-> Zero, max_drawdown |-> Zero,
     sharpe_ratio |-> Zero, backtest_period |-> <<"No data">>]

\* getattr: an object is the record of its attributes
HasAttr(obj, name) == name \in DOMAIN obj

\* np.polyfit(range(10), historical_prices[-10:], 1)[0] is slope/165 cents a
\* bar, with slope the sum of (2x - 9) * y_x over x in 0..9
RECURSIVE TrendSum(_, _)
TrendSum(last10, x) ==
    IF x > 9 THEN 0 ELSE (2 * x - 9) * last10[x + 1] + TrendSum(last10, x + 1)

\* _simulate_prediction: the directions possible for some confidence_factor in
\* [0.5, 1.0]; the trend is compared with +-0.001 * factor dollars a bar, that
\* is 2 * slope with +-33 * factor
_simulate_prediction(historical_prices) ==
    IF Len(historical_prices) < 10 THEN {"SIDEWAYS"}
    ELSE LET n == Len(historical_prices)
             slope == TrendSum(SubSeq(historical_prices, n - 9, n), 0)
         IN  {d \in Directions :
                 \/ d = "UP" /\ 4 * slope > 33
                 \/ d = "DOWN" /\ 4 * slope < 0 - 33
                 \/ d = "SIDEWAYS" /\ 2 * slope <= 33 /\ 2 * slope >= 0 - 33}

\* _simulate_trade: pnl = 1000 * risk / entry * (exit - entry), reversed for a
\* short position
_simulate_trade(predicted_direction, entry_price, exit_price, risk_per_trade) ==
    LET side == IF predicted_direction = "UP" THEN 1 ELSE -1
    IN  [pnl |-> <<side * risk_per_trade * (exit_price - entry_price), entry_price>>,
         return_pct |-> <<side * (exit_price - entry_price), entry_price>>,
         entry_price |-> entry_price, exit_price |-> exit_price,
         predicted_direction |-> predicted_direction]

ActualDirection(current_price, future_price) ==
    IF future_price > current_price THEN "UP"
    ELSE IF future_price < current_price THEN "DOWN"
    ELSE "SIDEWAYS"

\* lines 771-787: what the body of the loop appends for a predicted
\* direction, as <<predicted, actual, trades>>
StepRecord(predicted_direction, current_price, future_price, risk) ==
    [predicted |-> predicted_direction,
     actual |-> ActualDirection(current_price, future_price),
     trades |-> IF predicted_direction # "SIDEWAYS"
                THEN <<_simulate_trade(predicted_direction, current_price, future_price,
                                       risk)>>
                ELSE <<>>]

\* the body of the loop at index i (0-based), lines 763-787: the records it
\* can append
SimulationStep(prices, i, horizon, risk) ==
    LET n == Len(prices)
        current_price == prices[i + 1]
        future_price == prices[Min(i + horizon, n - 1) + 1]
    IN  {StepRecord(d, current_price, future_price, risk)
         : d \in _simulate_prediction(SubSeq(prices, 1, i))}

\* the loop "for i in range(lo, hi)": the sequences of step records it can build
RECURSIVE SimulationRuns(_, _, _, _, _)
SimulationRuns(prices, lo, hi, horizon, risk) ==
    IF lo >= hi THEN {<<>>}
    ELSE {<<step>> \o rest :
             step \in SimulationStep(prices, lo, horizon, risk),
             rest \in SimulationRuns(prices, lo + 1, hi, horizon, risk)}

Count(S) == Cardinality(S)

Ratio(num, den) == IF den > 0 THEN <<num, den>> ELSE Zero

RECURSIVE Flatten(_)
Flatten(seqs) == IF seqs = <<>> THEN <<>> ELSE Head(seqs) \o Flatten(Tail(seqs))

\* _calculate_backtest_metrics with the direction accuracies over all predictions
_calculate_backtest_metrics_over_all(run) ==
    LET idx == DOMAIN run
        trades == Flatten([k \in idx |-> run[k].trades])
        total_predictions == Len(run)
        correct_predictions == Count({k \in idx : run[k].predicted = run[k].actual})
        ups == {k \in idx : run[k].predicted = "UP"}
        downs == {k \in idx : run[k].predicted = "DOWN"}
        winning == Count({k \in DOMAIN trades : trades[k].pnl[1] > 0})
        losing == Count({k \in DOMAIN trades : trades[k].pnl[1] < 0})
        accuracy == Ratio(correct_predictions, total_predictions)
        win_rate == Ratio(winning, Len(trades))
    IN  [accuracy |-> accuracy,
         total_predictions |-> total_predictions,
         correct_predictions |-> correct_predictions,
         up_accuracy |-> Ratio(Count({k \in ups : run[k].actual = "UP"}), total_predictions),
         down_accuracy |-> Ratio(Count({k \in downs : run[k].actual = "DOWN"}), total_predictions),
         precision |-> win_rate,
         recall |-> accuracy,
         total_trades |-> Len(trades),
         winning_trades |-> winning,
         losing_trades |-> losing,
         win_rate |-> win_rate,
         backtest_period |-> <<total_predictions, "predictions">>]

\* _calculate_backtest_metrics, lines 846-915, on the steps of one run
_calculate_backtest_metrics(run) ==
    LET idx == DOMAIN run
        trades == Flatten([k \in idx |-> run[k].trades])
        total_predictions == Len(run)
        correct_predictions == Count({k \in idx : run[k].predicted = run[k].actual})
        ups == {k \in idx : run[k].predicted = "UP"}
        downs == {k \in idx : run[k].predicted = "DOWN"}
        winning == Count({k \in DOMAIN trades : trades[k].pnl[1] > 0})
        losing == Count({k \in DOMAIN trades : trades[k].pnl[1] < 0})
        accuracy == Ratio(correct_predictions, total_predictions)
        win_rate == Ratio(winning, Len(trades))
    IN  [accuracy |-> accuracy,
         total_predictions |-> total_predictions,
         correct_predictions |-> correct_predictions,
         up_accuracy |-> Ratio(Count({k \in ups : run[k].actual = "UP"}), Count(ups)),
         down_accuracy |-> Ratio(Count({k \in downs : run[k].actual = "DOWN"}), Count(downs)),
         precision |-> win_rate,
         recall |-> accuracy,
         total_trades |-> Len(trades),
         winning_trades |-> winning,
         losing_trades |-> losing,
         win_rate |-> win_rate,
         backtest_period |-> <<total_predictions, "predictions">>]

\* variant: a series below min_data_points gets the metrics of no prediction
_run_backtest_simulation_unguarded(prices, p, risk) ==
    IF Len(prices) < MinDataPoints
    THEN [raised |-> "none", results |-> {_calculate_backtest_metrics(<<>>)}]
    ELSE [raised |-> "AttributeError", results |-> {}]

\* _run_backtest_simulation, lines 745-797: the reports it can return, or the
\* AttributeError raised when the range of the loop is evaluated on a
\* prediction without the attribute time_horizon_hours
_run_backtest_simulation(prices, p, risk) ==
    IF Len(prices) < MinDataPoints
    THEN [raised |-> "none", results |-> {EmptyBacktestResults}]
    ELSE IF ~HasAttr(p, "time_horizon_hours")
    THEN [raised |-> "AttributeError", results |-> {}]
    ELSE [raised |-> "none",
          results |->
              {IF run = <<>> THEN EmptyBacktestResults
               ELSE _calculate_backtest_metrics(run)
               : run \in SimulationRuns(prices, LookbackWindow,
                                        Len(prices) - p["time_horizon_hours"],
                                        p["time_horizon_hours"], risk)}]

\* backtest_prediction, lines 716-743: any exception gives the empty report
BacktestReports(p, data, risk) ==
    IF data = None \/ Len(data) < MinBacktestBars THEN {EmptyBacktestResults}
    ELSE LET outcome == _run_backtest_simulation(data, p, risk)
         IN  IF outcome.raised # "none" THEN {EmptyBacktestResults}
             ELSE outcome.results

(***************************************************************************)
(* calculate_technical_indicators                                          *)
(*                                                                         *)
(* A value of the map is a float: exact (the rational num/den), finite     *)
(* without the model following its value (float), NaN or infinite.  The    *)
(* bars have non-negative volumes and low <= close <= high.                *)
(***************************************************************************)
\* the indicator families, in the order of their computation; the flags of
\* williams_r, cci and atr are read nowhere
IndicatorFamilies ==
    <<"moving_averages", "rsi", "macd", "bollinger_bands", "volume", "stochastic">>

Exact(num, den) == [kind |-> "exact", num |-> num, den |-> den]

Float == [kind |-> "float", num |-> 0, den |-> 1]

NaN == [kind |-> "nan", num |-> 0, den |-> 0]

Inf == [kind |-> "inf", num |-> 1, den |-> 0]

\* numpy's a / b, a >= 0 and b >= 0: a warning and NaN or inf when b is 0
FloatDiv(a, b) == IF b # 0 THEN Exact(a, b) ELSE IF a = 0 THEN NaN ELSE Inf

\* df[name]
Column(bars, name) == [i \in DOMAIN bars |-> bars[i][name]]

RECURSIVE Sum(_, _, _)
Sum(xs, lo, hi) == IF lo > hi THEN 0 ELSE xs[lo] + Sum(xs, lo + 1, hi)

Max(a, b) == IF a > b THEN a ELSE b

Lowest(xs, lo, hi) == CHOOSE v \in {xs[i] : i \in lo..hi} : \A i \in lo..hi : v <= xs[i]

Highest(xs, lo, hi) == CHOOSE v \in {xs[i] : i \in lo..hi} : \A i \in lo..hi : v >= xs[i]

\* series.rolling(window).mean().iloc[-1], Len(xs) >= window
RollingMean(xs, window) == Exact(Sum(xs, Len(xs) - window + 1, Len(xs)), window)

\* dict.update
Update(d, e) == [k \in DOMAIN d \cup DOMAIN e |-> IF k \in DOMAIN e THEN e[k] ELSE d[k]]

\* what one indicator family does: the keys it sets, and whether an exception
\* leaves it for the handler of line 129
Sets(keys) == [raised |-> FALSE, keys |-> keys]

Raises == [raised |-> TRUE, keys |-> <<>>]

\* f'MA_{period}'
MAPeriod == [MA_9 |-> 9, MA_21 |-> 21, MA_50 |-> 50, MA_200 |-> 200]

\* lines 64-68; the rolling mean is the library call that may raise
MovingAverages(df, cfg, fails) ==
    LET close == Column(df, "close")
        keys == {k \in DOMAIN MAPeriod :
                    /\ \E i \in DOMAIN cfg.ma_periods : cfg.ma_periods[i] = MAPeriod[k]
                    /\ Len(df) >= MAPeriod[k]}
    IN  IF ~GetDefault(cfg.indicators, "moving_averages", FALSE) \/ keys = {} THEN {Sets(<<>>)}
        ELSE IF fails THEN {Raises}
        ELSE {Sets([k \in keys |-> Some(RollingMean(close, MAPeriod[k]))])}

\* lines 211-222 without the exception: the gains and the losses of the last
\* `period` differences (the difference before the first bar counts 0), and
\* 100 - 100 / (1 + gain / loss) rounded to hundredths.  Without a loss the
\* quotient is inf and the result 100.0; without a gain either it is NaN.
_calculate_rsi_manual(prices, period) ==
    LET n == Len(prices)
        first == Max(2, n - period + 1)
        delta == [i \in first..n |-> prices[i] - prices[i - 1]]
        gain == Sum([i \in first..n |-> Max(delta[i], 0)], first, n)
        loss == Sum([i \in first..n |-> Max(0 - delta[i], 0)], first, n)
    IN  IF loss = 0
        THEN IF gain = 0 THEN {None} ELSE {Some(Exact(10000, 100))}
        ELSE {Some(Exact(x, 100)) : x \in RoundChoices(10000 * gain, gain + loss)}

\* lines 70-77; talib.RSI has no value for the first `period` bars
RSI(df, cfg, talib, fails) ==
    IF ~(GetDefault(cfg.indicators, "rsi", FALSE) /\ Len(df) >= cfg.rsi_period)
    THEN {Sets(<<>>)}
    ELSE IF talib
    THEN IF fails THEN {Raises}
         ELSE {Sets([RSI |-> IF Len(df) > cfg.rsi_period THEN Some(Float) ELSE None])}
    ELSE IF fails THEN {Sets([RSI |-> None])}
    ELSE {Sets([RSI |-> v]) : v \in _calculate_rsi_manual(Column(df, "close"), cfg.rsi_period)}

\* lines 224-240: the exponential means of a finite series are finite
_calculate_macd_manual(fails) ==
    LET v == IF fails THEN None ELSE Some(Float)
    IN  [MACD |-> v, MACD_Signal |-> v, MACD_Histogram |-> v]

\* lines 79-92; talib.MACD has no value for the first slow + signal - 2 bars
MACD(df, cfg, talib, fails) ==
    LET slow == cfg.macd_periods[2]
        signal_period == cfg.macd_periods[3]
    IN  IF ~(GetDefault(cfg.indicators, "macd", FALSE) /\ Len(df) >= slow)
        THEN {Sets(<<>>)}
        ELSE IF talib
        THEN IF fails THEN {Raises}
             ELSE LET v == IF Len(df) >= slow + signal_period - 1 THEN Some(Float) ELSE None
                  IN  {Sets([MACD |-> v, MACD_Signal |-> v, MACD_Histogram |-> v])}
        ELSE {Sets(_calculate_macd_manual(fails))}

\* lines 242-257: the middle band is the rolling mean rounded to hundredths
_calculate_bollinger_bands_manual(prices, period, fails) ==
    IF fails THEN {[BB_Upper |-> None, BB_Middle |-> None, BB_Lower |-> None]}
    ELSE {[BB_Upper |-> Some(Float), BB_Middle |-> Some(Exact(m, 100)), BB_Lower |-> Some(Float)]
          : m \in RoundChoices(100 * Sum(prices, Len(prices) - period + 1, Len(prices)),
                               period)}

\* lines 94-109
BollingerBands(df, cfg, talib, fails) ==
    IF ~(GetDefault(cfg.indicators, "bollinger_bands", FALSE) /\ Len(df) >= cfg.bb_period)
    THEN {Sets(<<>>)}
    ELSE IF talib
    THEN IF fails THEN {Raises}
         ELSE {Sets([BB_Upper |-> Some(Float), BB_Middle |-> Some(Float),
                     BB_Lower |-> Some(Float)])}
    ELSE {Sets(keys) :
             keys \in _calculate_bollinger_bands_manual(Column(df, "close"),
                                                        cfg.bb_period, fails)}

\* lines 111-114: the last volume over the mean of the last 10
Volume(df, cfg, fails) ==
    IF ~(GetDefault(cfg.indicators, "volume", FALSE) /\ Len(df) >= VolumeWindow)
    THEN {Sets(<<>>)}
    ELSE IF fails THEN {Raises}
    ELSE LET volume == Column(df, "volume")
             total == Sum(volume, Len(df) - VolumeWindow + 1, Len(df))
         IN  {Sets([Volume_MA |-> Some(Exact(total, VolumeWindow)),
                    Volume_Ratio |-> Some(FloatDiv(VolumeWindow * volume[Len(df)], total))])}

\* %K at bar i: 100 * (close - lowest low) / (highest high - lowest low) over
\* the 14 bars ending at i
StochK(df, i) ==
    LET lowest_low == Lowest(Column(df, "low"), i - StochPeriod + 1, i)
        highest_high == Highest(Column(df, "high"), i - StochPeriod + 1, i)
    IN  FloatDiv(100 * (df[i].close - lowest_low), highest_high - lowest_low)

\* lines 259-273: %K rounded to hundredths, %D the mean of the last 3 %K
_calculate_stochastic_manual(df, fails) ==
    LET n == Len(df)
        k == StochK(df, n)
        d == IF n >= StochPeriod + 2
                /\ \A i \in (n - 2)..n : StochK(df, i).kind = "exact"
             THEN Some(Float) ELSE None
    IN  IF fails THEN {[Stoch_K |-> None, Stoch_D |-> None]}
        ELSE IF k.kind = "nan" THEN {[Stoch_K |-> None, Stoch_D |-> None]}
        ELSE IF k.kind = "inf" THEN {[Stoch_K |-> Some(Inf), Stoch_D |-> None]}
        ELSE {[Stoch_K |-> Some(Exact(x, 100)), Stoch_D |-> d]
              : x \in RoundChoices(100 * k.num, k.den)}

\* lines 116-127; talib.STOCH has no value for the first 13 + 2 + 2 bars
Stochastic(df, cfg, talib, fails) ==
    IF ~(GetDefault(cfg.indicators, "stochastic", FALSE) /\ Len(df) >= StochPeriod)
    THEN {Sets(<<>>)}
    ELSE IF talib
    THEN IF fails THEN {Raises}
         ELSE LET v == IF Len(df) >= StochPeriod + 4 THEN Some(Float) ELSE None
              IN  {Sets([Stoch_K |-> v, Stoch_D |-> v])}
    ELSE {Sets(keys) : keys \in _calculate_stochastic_manual(df, fails)}

Family(name, df, cfg, talib, fails) ==
    CASE name = "moving_averages" -> MovingAverages(df, cfg, fails)
      [] name = "rsi" -> RSI(df, cfg, talib, fails)
      [] name = "macd" -> MACD(df, cfg, talib, fails)
      [] name = "bollinger_bands" -> BollingerBands(df, cfg, talib, fails)
      [] name = "volume" -> Volume(df, cfg, fails)
      [] name = "stochastic" -> Stochastic(df, cfg, talib, fails)

\* the body of the try of lines 63-130 from family i on: an exception ends it
\* with the keys set so far
RECURSIVE TryFamilies(_, _, _, _, _, _)
TryFamilies(i, acc, df, cfg, talib, failing) ==
    IF i > Len(IndicatorFamilies) THEN {acc}
    ELSE UNION {IF out.raised THEN {acc}
                ELSE TryFamilies(i + 1, Update(acc, out.keys), df, cfg, talib, failing)
                : out \in Family(IndicatorFamilies[i], df, cfg, talib,
                                 failing = IndicatorFamilies[i])}

\* lines 50-136: the maps the call can return, the None values removed
IndicatorMaps(bars, cfg, talib, failing) ==
    IF bars = <<>> THEN {<<>>}
    ELSE {[k \in {k \in DOMAIN acc : acc[k] # None} |-> Val(acc[k])]
          : acc \in TryFamilies(1, <<>>, bars, cfg, talib, failing)}

(***************************************************************************)
(* detect_patterns, predictor.py lines 56-527.  Prices are whole numbers,  *)
(* so every test of the detectors is a comparison of integers; a           *)
(* confidence is a rational <<num, den>> in lowest terms, None when it is  *)
(* NaN.  The bar at position k carries the date k.  Positions are those of *)
(* the Python arrays plus one.                                             *)
(***************************************************************************)
Detectors ==
    {"double_bottom", "double_top", "head_shoulders", "triangles", "breakouts",
     "trend_channels"}

\* num / den, num >= 0 and den > 0
Rat(num, den) == LET g == GCD(num, den) IN <<num \div g, den \div g>>

\* a < b for two rationals that are not NaN
RECURSIVE RatLess(_, _)
RatLess(a, b) ==
    LET qa == a[1] \div a[2]
        ra == a[1] % a[2]
        qb == b[1] \div b[2]
        rb == b[1] % b[2]
    IN  IF qa # qb THEN qa < qb
        ELSE IF rb = 0 THEN FALSE
        ELSE IF ra = 0 THEN TRUE
        ELSE RatLess(<<b[2], rb>>, <<a[2], ra>>)

\* a + b: NaN when either is
RatAdd(a, b) ==
    IF a = None \/ b = None THEN None
    ELSE LET g == GCD(a[2], b[2])
         IN  Rat(a[1] * (b[2] \div g) + b[1] * (a[2] \div g), (a[2] \div g) * b[2])

\* a * b: NaN when either is
RatMul(a, b) ==
    IF a = None \/ b = None THEN None
    ELSE LET x == Rat(a[1], b[2])
             y == Rat(b[1], a[2])
         IN  <<x[1] * y[1], x[2] * y[2]>>

\* a > b as Python compares floats: False when a is NaN
Greater(a, b) == a # None /\ RatLess(b, a)

\* Python's min(a, b): b only when b < a, so min(cap, NaN) is the cap
PyMin(a, b) == IF a # None /\ b # None /\ RatLess(b, a) THEN b ELSE a

Pattern(name, confidence, start_time, end_time, pattern_type, description) ==
    [name |-> name, confidence |-> confidence, start_time |-> start_time,
     end_time |-> end_time, pattern_type |-> pattern_type,
     description |-> description]

\* the positions i with window <= i < len - window whose value no value
\* within window bars undercuts (side = -1) or exceeds (side = 1), ascending
LocalExtrema(xs, side) ==
    LET found == {k \in (Window + 1)..(Len(xs) - Window) :
                     \A j \in 1..Window : /\ side * xs[k] >= side * xs[k - j]
                                          /\ side * xs[k] >= side * xs[k + j]}
    IN  [r \in 1..Cardinality(found) |->
            CHOOSE k \in found : Cardinality({m \in found : m < k}) = r - 1]

\* lines 100-137, without the break of line 135
_detect_double_bottom_every_pair(bars) ==
    LET highs == Column(bars, "high")
        lows == Column(bars, "low")
        local_mins == LocalExtrema(lows, -1)
        Qualifies(i, j) ==
            LET low1 == lows[local_mins[i]]
                low2 == lows[local_mins[j]]
                between_high == Highest(highs, local_mins[i], local_mins[j] - 1)
            IN  /\ 50 * Abs(low1 - low2) < low1
                /\ 20 * (between_high - Min(low1, low2)) > Min(low1, low2)
    IN  IF Len(lows) < 20 THEN <<>>
        ELSE Flatten([i \in 1..(Len(local_mins) - 1) |->
                 Flatten([d \in 1..(Len(local_mins) - i) |->
                     IF Qualifies(i, i + d)
                     THEN <<Pattern("Double Bottom", PyMin(<<17, 20>>, Rat(10 + d, 20)),
                                    bars[local_mins[i]].timestamp,
                                    bars[local_mins[i + d]].timestamp, "bullish", <<>>)>>
                     ELSE <<>>])])

\* lines 100-137
_detect_double_bottom(bars) ==
    LET highs == Column(bars, "high")
        lows == Column(bars, "low")
        local_mins == LocalExtrema(lows, -1)
        Qualifies(i, j) ==
            LET low1 == lows[local_mins[i]]
                low2 == lows[local_mins[j]]
                between_high == Highest(highs, local_mins[i], local_mins[j] - 1)
            IN  /\ 50 * Abs(low1 - low2) < low1
                /\ 20 * (between_high - Min(low1, low2)) > Min(low1, low2)
        First(i) == {j \in (i + 1)..Len(local_mins) :
                        Qualifies(i, j) /\ \A k \in (i + 1)..(j - 1) : ~Qualifies(i, k)}
    IN  IF Len(lows) < 20 THEN <<>>
        ELSE Flatten([i \in 1..(Len(local_mins) - 1) |->
                 IF First(i) = {} THEN <<>>
                 ELSE LET j == CHOOSE j \in First(i) : TRUE
                      IN  <<Pattern("Double Bottom", PyMin(<<17, 20>>, Rat(10 + (j - i), 20)),
                                    bars[local_mins[i]].timestamp,
                                    bars[local_mins[j]].timestamp, "bullish", <<>>)>>])

\* lines 139-176
_detect_double_top(bars) ==
    LET highs == Column(bars, "high")
        lows == Column(bars, "low")
        local_maxs == LocalExtrema(highs, 1)
        Qualifies(i, j) ==
            LET high1 == highs[local_maxs[i]]
                high2 == highs[local_maxs[j]]
                between_low == Lowest(lows, local_maxs[i], local_maxs[j] - 1)
            IN  /\ 50 * Abs(high1 - high2) < high1
                /\ 20 * (Min(high1, high2) - between_low) > between_low
        First(i) == {j \in (i + 1)..Len(local_maxs) :
                        Qualifies(i, j) /\ \A k \in (i + 1)..(j - 1) : ~Qualifies(i, k)}
    IN  IF Len(highs) < 20 THEN <<>>
        ELSE Flatten([i \in 1..(Len(local_maxs) - 1) |->
                 IF First(i) = {} THEN <<>>
                 ELSE LET j == CHOOSE j \in First(i) : TRUE
                      IN  <<Pattern("Double Top", PyMin(<<17, 20>>, Rat(10 + (j - i), 20)),
                                    bars[local_maxs[i]].timestamp,
                                    bars[local_maxs[j]].timestamp, "bearish", <<>>)>>])

\* lines 178-241, without the cap of line 221
_detect_head_shoulders_uncapped(bars) ==
    LET highs == Column(bars, "high")
        local_maxs == LocalExtrema(highs, 1)
        Candidate(i) ==
            LET left_height == highs[local_maxs[i]]
                head_height == highs[local_maxs[i + 1]]
                right_height == highs[local_maxs[i + 2]]
                shoulder == Max(left_height, right_height)
            IN  IF /\ 50 * head_height > 51 * left_height
                   /\ 50 * head_height > 51 * right_height
                   /\ 25 * Abs(left_height - right_height) < 2 * left_height
                   /\ local_maxs[i + 1] - local_maxs[i] > 3
                   /\ local_maxs[i + 2] - local_maxs[i + 1] > 3
                THEN <<Pattern("Head and Shoulders",
                               RatAdd(<<3, 5>>,
                                      RatMul(Rat(head_height - shoulder, shoulder), <<5, 1>>)),
                               bars[local_maxs[i]].timestamp,
                               bars[local_maxs[i + 2]].timestamp, "bearish", <<>>)>>
                ELSE <<>>
    IN  IF Len(highs) < 25 \/ Len(local_maxs) < 3 THEN <<>>
        ELSE Flatten([i \in 1..(Len(local_maxs) - 2) |-> Candidate(i)])

\* lines 178-241
_detect_head_shoulders(bars) ==
    LET highs == Column(bars, "high")
        local_maxs == LocalExtrema(highs, 1)
        Candidate(i) ==
            LET left_height == highs[local_maxs[i]]
                head_height == highs[local_maxs[i + 1]]
                right_height == highs[local_maxs[i + 2]]
                shoulder == Max(left_height, right_height)
            IN  IF /\ 50 * head_height > 51 * left_height
                   /\ 50 * head_height > 51 * right_height
                   /\ 25 * Abs(left_height - right_height) < 2 * left_height
                   /\ local_maxs[i + 1] - local_maxs[i] > 3
                   /\ local_maxs[i + 2] - local_maxs[i + 1] > 3
                THEN <<Pattern("Head and Shoulders",
                               PyMin(<<4, 5>>,
                                     RatAdd(<<3, 5>>,
                                            RatMul(Rat(head_height - shoulder, shoulder),
                                                   <<5, 1>>))),
                               bars[local_maxs[i]].timestamp,
                               bars[local_maxs[i + 2]].timestamp, "bearish", <<>>)>>
                ELSE <<>>
    IN  IF Len(highs) < 25 \/ Len(local_maxs) < 3 THEN <<>>
        ELSE Flatten([i \in 1..(Len(local_maxs) - 2) |-> Candidate(i)])

\* np.polyfit(x, ys[lo..hi], 1) and np.corrcoef(x, ys[lo..hi]) for x = 0, 1, ...:
\* the slope is 2 A / B and the squared correlation n A^2 / (B C)
Fit(ys, lo, hi) ==
    LET n == hi - lo + 1
        base == Lowest(ys, lo, hi)
        d == [k \in 1..n |-> ys[lo + k - 1] - base]
    IN  [n |-> n,
         A |-> Sum([k \in 1..n |-> (2 * k - n - 1) * d[k]], 1, n),
         B |-> (n * (n * n - 1)) \div 3,
         C |-> n * Sum([k \in 1..n |-> d[k] * d[k]], 1, n) - Sum(d, 1, n) * Sum(d, 1, n)]

\* np.corrcoef(...)[0, 1] ** 2: NaN for a constant array
RSquared(fit) ==
    IF fit.C = 0 THEN None ELSE Rat(fit.n * fit.A * fit.A, fit.B * fit.C)

\* lines 243-355, the symmetrical outcome tested first
_detect_triangles_symmetrical_first(bars) ==
    LET highs == Column(bars, "high")
        lows == Column(bars, "low")
        closes == Column(bars, "close")
        len == Len(closes)
        analysis_period == Min(50, Max(20, len \div 2))
        first == len - analysis_period + 1
        high == Fit(highs, first, len)
        low == Fit(lows, first, len)
        total == Sum(closes, first, len)
        \* slope / avg_price * 100 against the thresholds 0.15, 0.05 and -0.05
        Flat(fit) == 4000 * fit.n * Abs(fit.A) < 3 * fit.B * total
        Rising(fit) == 4000 * fit.n * fit.A > fit.B * total
        Falling(fit) == 4000 * fit.n * (0 - fit.A) > fit.B * total
        high_r2 == RSquared(high)
        low_r2 == RSquared(low)
        Found(name, confidence, pattern_type) ==
            <<Pattern(name, confidence, bars[first].timestamp, bars[len].timestamp,
                      pattern_type, <<>>)>>
    IN  IF len < 20 THEN <<>>
        ELSE IF ~(Greater(high_r2, <<3, 20>>) \/ Greater(low_r2, <<3, 20>>)) THEN <<>>
        ELSE IF Falling(high) /\ Rising(low)
        THEN Found("Symmetrical Triangle",
                   PyMin(<<3, 4>>, RatAdd(<<9, 20>>,
                                          RatMul(PyMin(high_r2, low_r2), <<3, 10>>))),
                   "neutral")
        ELSE IF Flat(high) /\ Rising(low)
        THEN Found("Ascending Triangle",
                   PyMin(<<4, 5>>, RatAdd(<<1, 2>>, RatMul(low_r2, <<3, 10>>))), "bullish")
        ELSE IF Falling(high) /\ Flat(low)
        THEN Found("Descending Triangle",
                   PyMin(<<4, 5>>, RatAdd(<<1, 2>>, RatMul(high_r2, <<3, 10>>))), "bearish")
        ELSE IF Flat(high) /\ Flat(low)
        THEN Found("Consolidation Triangle",
                   PyMin(<<7, 10>>,
                         RatAdd(<<2, 5>>,
                                RatMul(RatMul(RatAdd(high_r2, low_r2), <<1, 2>>),
                                       <<3, 10>>))),
                   "neutral")
        ELSE <<>>

\* lines 243-355
_detect_triangles(bars) ==
    LET highs == Column(bars, "high")
        lows == Column(bars, "low")
        closes == Column(bars, "close")
        len == Len(closes)
        analysis_period == Min(50, Max(20, len \div 2))
        first == len - analysis_period + 1
        high == Fit(highs, first, len)
        low == Fit(lows, first, len)
        total == Sum(closes, first, len)
        \* slope / avg_price * 100 against the thresholds 0.15, 0.05 and -0.05
        Flat(fit) == 4000 * fit.n * Abs(fit.A) < 3 * fit.B * total
        Rising(fit) == 4000 * fit.n * fit.A > fit.B * total
        Falling(fit) == 4000 * fit.n * (0 - fit.A) > fit.B * total
        high_r2 == RSquared(high)
        low_r2 == RSquared(low)
        Found(name, confidence, pattern_type) ==
            <<Pattern(name, confidence, bars[first].timestamp, bars[len].timestamp,
                      pattern_type, <<>>)>>
    IN  IF len < 20 THEN <<>>
        ELSE IF ~(Greater(high_r2, <<3, 20>>) \/ Greater(low_r2, <<3, 20>>)) THEN <<>>
        ELSE IF Flat(high) /\ Rising(low)
        THEN Found("Ascending Triangle",
                   PyMin(<<4, 5>>, RatAdd(<<1, 2>>, RatMul(low_r2, <<3, 10>>))), "bullish")
        ELSE IF Falling(high) /\ Flat(low)
        THEN Found("Descending Triangle",
                   PyMin(<<4, 5>>, RatAdd(<<1, 2>>, RatMul(high_r2, <<3, 10>>))), "bearish")
        ELSE IF Falling(high) /\ Rising(low)
        THEN Found("Symmetrical Triangle",
                   PyMin(<<3, 4>>, RatAdd(<<9, 20>>,
                                          RatMul(PyMin(high_r2, low_r2), <<3, 10>>))),
                   "neutral")
        ELSE IF Flat(high) /\ Flat(low)
        THEN Found("Consolidation Triangle",
                   PyMin(<<7, 10>>,
                         RatAdd(<<2, 5>>,
                                RatMul(RatMul(RatAdd(high_r2, low_r2), <<1, 2>>),
                                       <<3, 10>>))),
                   "neutral")
        ELSE <<>>

\* 100 * np.percentile(xs[lo..hi], q), by linear interpolation
Percentile(xs, lo, hi, q) ==
    LET Sorted(k) == CHOOSE v \in {xs[i] : i \in lo..hi} :
                         /\ Cardinality({i \in lo..hi : xs[i] < v}) <= k
                         /\ Cardinality({i \in lo..hi : xs[i] <= v}) > k
        position == (hi - lo) * q
        below == position \div 100
        fraction == position % 100
    IN  IF fraction = 0 THEN 100 * Sorted(below)
        ELSE 100 * Sorted(below) + fraction * (Sorted(below + 1) - Sorted(below))

\* lines 357-474, a breakdown tested against the resistance levels
_detect_breakouts_one_level_list(bars) ==
    LET highs == Column(bars, "high")
        lows == Column(bars, "low")
        closes == Column(bars, "close")
        volumes == Column(bars, "volume")
        len == Len(closes)
        recent_period == Min(20, len - 5)
        first == len - recent_period + 1
        resistance_levels == <<100 * Highest(highs, first, len - 5),
                               Percentile(highs, first, len, 90),
                               Percentile(highs, first, len, 85)>>
        support_levels == <<100 * Lowest(lows, first, len - 5),
                            Percentile(lows, first, len, 10),
                            Percentile(lows, first, len, 15)>>
        current_price == closes[len]
        \* avg_volume is volume_total / volume_count
        volume_total == Sum(volumes, first, len - 3)
        volume_count == recent_period - 3
        current_volume == volumes[len]
        volume_multiplier ==
            IF 5 * volume_count * current_volume > 6 * volume_total
            THEN IF volume_total = 0 THEN <<13, 10>>
                 ELSE PyMin(<<13, 10>>, Rat(5 * volume_count * current_volume,
                                            6 * volume_total))
            ELSE <<1, 1>>
        confidence(i) == PyMin(<<17, 20>>, RatMul(Rat(11 + i, 20), volume_multiplier))
        breakouts == <<"Minor Resistance Breakout", "Moderate Resistance Breakout",
                       "Strong Resistance Breakout">>
        breakdowns == <<"Minor Support Breakdown", "Moderate Support Breakdown",
                        "Strong Support Breakdown">>
        Broken(i) == 100000 * current_price > resistance_levels[i + 1] * (1005 + 3 * i)
        Lost(i) == 100000 * current_price < resistance_levels[i + 1] * (995 - 3 * i)
        Strongest(Hit(_), names, pattern_type) ==
            IF \A i \in 0..2 : ~Hit(i) THEN <<>>
            ELSE LET i == CHOOSE i \in 0..2 : Hit(i) /\ \A k \in 0..(i - 1) : ~Hit(k)
                 IN  <<Pattern(names[i + 1], confidence(i),
                               bars[len - 4].timestamp, bars[len].timestamp,
                               pattern_type, <<>>)>>
    IN  IF len < 15 THEN <<>>
        ELSE Strongest(Broken, breakouts, "bullish") \o Strongest(Lost, breakdowns, "bearish")

\* lines 357-474
_detect_breakouts(bars) ==
    LET highs == Column(bars, "high")
        lows == Column(bars, "low")
        closes == Column(bars, "close")
        volumes == Column(bars, "volume")
        len == Len(closes)
        recent_period == Min(20, len - 5)
        first == len - recent_period + 1
        resistance_levels == <<100 * Highest(highs, first, len - 5),
                               Percentile(highs, first, len, 90),
                               Percentile(highs, first, len, 85)>>
        support_levels == <<100 * Lowest(lows, first, len - 5),
                            Percentile(lows, first, len, 10),
                            Percentile(lows, first, len, 15)>>
        current_price == closes[len]
        \* avg_volume is volume_total / volume_count
        volume_total == Sum(volumes, first, len - 3)
        volume_count == recent_period - 3
        current_volume == volumes[len]
        volume_multiplier ==
            IF 5 * volume_count * current_volume > 6 * volume_total
            THEN IF volume_total = 0 THEN <<13, 10>>
                 ELSE PyMin(<<13, 10>>, Rat(5 * volume_count * current_volume,
                                            6 * volume_total))
            ELSE <<1, 1>>
        confidence(i) == PyMin(<<17, 20>>, RatMul(Rat(11 + i, 20), volume_multiplier))
        breakouts == <<"Minor Resistance Breakout", "Moderate Resistance Breakout",
                       "Strong Resistance Breakout">>
        breakdowns == <<"Minor Support Breakdown", "Moderate Support Breakdown",
                        "Strong Support Breakdown">>
        Broken(i) == 100000 * current_price > resistance_levels[i + 1] * (1005 + 3 * i)
        Lost(i) == 100000 * current_price < support_levels[i + 1] * (995 - 3 * i)
        Strongest(Hit(_), names, pattern_type) ==
            IF \A i \in 0..2 : ~Hit(i) THEN <<>>
            ELSE LET i == CHOOSE i \in 0..2 : Hit(i) /\ \A k \in 0..(i - 1) : ~Hit(k)
                 IN  <<Pattern(names[i + 1], confidence(i),
                               bars[len - 4].timestamp, bars[len].timestamp,
                               pattern_type, <<>>)>>
    IN  IF len < 15 THEN <<>>
        ELSE Strongest(Broken, breakouts, "bullish") \o Strongest(Lost, breakdowns, "bearish")

\* lines 476-527, the direction taken from the short slope
_detect_trend_channels_short_direction(bars) ==
    LET closes == Column(bars, "close")
        len == Len(closes)
        short == Fit(closes, len - 19, len)
        long == Fit(closes, len - 49, len)
        first == closes[len - 19]
        last == closes[len]
        Signs(A) == IF A > 0 THEN {1} ELSE IF A < 0 THEN {-1} ELSE {-1, 0, 1}
        Weakening == IF short.A = 0 /\ long.A = 0 THEN BOOLEAN
                     ELSE {10 * Abs(short.A) * long.B < 3 * Abs(long.A) * short.B}
        confidence == PyMin(<<4, 5>>,
                            RatAdd(<<1, 2>>, RatMul(Rat(Abs(last - first), first), <<2, 1>>)))
        Found(name, conf, pattern_type, description) ==
            <<Pattern(name, conf, bars[len - 19].timestamp, bars[len].timestamp,
                      pattern_type, description)>>
        Outcome(short_slope, long_slope, weakening) ==
            IF short_slope > 0 /\ long_slope > 0 /\ 20 * (last - first) > first
            THEN Found("Uptrend Channel", confidence, "bullish", <<>>)
            ELSE IF short_slope < 0 /\ long_slope < 0 /\ 20 * (first - last) > first
            THEN Found("Downtrend Channel", confidence, "bearish", <<>>)
            ELSE IF weakening
            THEN Found("Trend Weakening", <<3, 5>>, "neutral",
                       <<IF short_slope > 0 THEN "bullish" ELSE "bearish">>)
            ELSE <<>>
    IN  IF len < 50 THEN {<<>>}
        ELSE {Outcome(s, l, w) : s \in Signs(short.A), l \in Signs(long.A), w \in Weakening}

\* lines 476-527: the lists the call can return.  The slope polyfit gives a
\* series whose exact slope is 0 is a rounding residue of either sign
_detect_trend_channels(bars) ==
    LET closes == Column(bars, "close")
        len == Len(closes)
        short == Fit(closes, len - 19, len)
        long == Fit(closes, len - 49, len)
        first == closes[len - 19]
        last == closes[len]
        Signs(A) == IF A > 0 THEN {1} ELSE IF A < 0 THEN {-1} ELSE {-1, 0, 1}
        Weakening == IF short.A = 0 /\ long.A = 0 THEN BOOLEAN
                     ELSE {10 * Abs(short.A) * long.B < 3 * Abs(long.A) * short.B}
        confidence == PyMin(<<4, 5>>,
                            RatAdd(<<1, 2>>, RatMul(Rat(Abs(last - first), first), <<2, 1>>)))
        Found(name, conf, pattern_type, description) ==
            <<Pattern(name, conf, bars[len - 19].timestamp, bars[len].timestamp,
                      pattern_type, description)>>
        Outcome(short_slope, long_slope, weakening) ==
            IF short_slope > 0 /\ long_slope > 0 /\ 20 * (last - first) > first
            THEN Found("Uptrend Channel", confidence, "bullish", <<>>)
            ELSE IF short_slope < 0 /\ long_slope < 0 /\ 20 * (first - last) > first
            THEN Found("Downtrend Channel", confidence, "bearish", <<>>)
            ELSE IF weakening
            THEN Found("Trend Weakening", <<3, 5>>, "neutral",
                       <<IF long_slope > 0 THEN "bullish" ELSE "bearish">>)
            ELSE <<>>
    IN  IF len < 50 THEN {<<>>}
        ELSE {Outcome(s, l, w) : s \in Signs(short.A), l \in Signs(long.A), w \in Weakening}

\* lines 56-98, without the guard of lines 62-64
PatternsDetectedUnguarded(bars) ==
    {[patterns |-> _detect_double_bottom(bars) \o _detect_double_top(bars)
                   \o _detect_head_shoulders(bars) \o _detect_triangles(bars)
                   \o _detect_breakouts(bars) \o trend_channel_patterns,
      detectors_run |-> Detectors]
     : trend_channel_patterns \in _detect_trend_channels(bars)}

\* lines 56-98: the lists detect_patterns can return, and the detectors it ran
PatternsDetected(bars) ==
    IF bars = <<>> \/ Len(bars) < 20
    THEN {[patterns |-> <<>>, detectors_run |-> {}]}
    ELSE {[patterns |-> _detect_double_bottom(bars) \o _detect_double_top(bars)
                        \o _detect_head_shoulders(bars) \o _detect_triangles(bars)
                        \o _detect_breakouts(bars) \o trend_channel_patterns,
           detectors_run |-> Detectors]
          : trend_channel_patterns \in _detect_trend_channels(bars)}

(***************************************************************************)
(* validate_extracted_data, chart_extractor.py lines 155-209.  The         *)
(* quality score is in hundredths; a warning is its kind and its count.    *)
(***************************************************************************)
ValidationResults(bars) ==
    LET price_changes == 2..Len(bars)
        \* abs(curr_open - prev_close) / prev_close > 0.20
        extreme_changes ==
            {i \in price_changes :
                5 * Abs(bars[i].open - bars[i - 1].close) > bars[i - 1].close}
        inconsistent_candles ==
            {i \in DOMAIN bars :
                ~(/\ bars[i].low <= Min(bars[i].open, bars[i].close)
                  /\ Max(bars[i].open, bars[i].close) <= bars[i].high)}
        base_score ==
            Max(0, Min(100, 100 - 5 * Cardinality(extreme_changes)
                                - 10 * Cardinality(inconsistent_candles)))
    IN  IF bars = <<>>
        THEN [is_valid |-> FALSE, warnings |-> <<>>,
              errors |-> <<"No OHLC data extracted">>, quality_score |-> 0]
        ELSE [is_valid |-> base_score >= 50,
              warnings |->
                  (IF 10 * Cardinality(extreme_changes) > Cardinality(price_changes)
                   THEN <<<<"extreme price changes", Cardinality(extreme_changes)>>>>
                   ELSE <<>>)
                  \o (IF inconsistent_candles # {}
                      THEN <<<<"inconsistent candles", Cardinality(inconsistent_candles)>>>>
                      ELSE <<>>),
              errors |-> IF base_score < 50
                         THEN <<"Data quality score below acceptable threshold">>
                         ELSE <<>>,
              quality_score |-> base_score]

(***************************************************************************)
(* The window, its settings dialog and its analysis workers                *)
(* (main_window.py, settings_dialog.py).  An AppSettings object refers to  *)
(* its configuration objects, which live in configs; one field stands for  *)
(* each: rsi_period of the TechnicalAnalysisConfig, prediction_horizon of  *)
(* the ModelConfig, max_risk_per_trade (in thousandths) of the             *)
(* TradingConfig.                                                          *)
(***************************************************************************)
\* the stages of LiveDataWorker.run and the progress each announces
Stages == <<"fetch", "indicators", "patterns", "prediction", "signals">>

StageProgress == <<20, 50, 70, 85, 95>>

\* the configuration objects of AppSettings(), all defaults
DefaultConfigs ==
    <<[rsi_period |-> DefaultRsiPeriod],
      [prediction_horizon |-> DefaultHorizon],
      [max_risk_per_trade |-> DefaultRisk]>>

\* the AppSettings whose configuration objects are the three after position base
AppSettings(base) ==
    [technical_config |-> base + 1, ml_model_config |-> base + 2,
     trading_config |-> base + 3]

\* the values a component reads through its references
ConfigValues(heap, technical, model, trading) ==
    [rsi_period |-> heap[technical].rsi_period,
     prediction_horizon |-> heap[model].prediction_horizon,
     max_risk_per_trade |-> heap[trading].max_risk_per_trade]

\* LiveDataWorker.__init__: the extractor and the predictor keep the
\* configuration objects of the settings
LiveDataWorker(request, settings) ==
    [request |-> request,
     pc |-> Stages[1],
     emitted |-> <<>>,
     tech_config |-> settings.technical_config,
     model_config |-> settings.ml_model_config,
     trading_config |-> settings.trading_config,
     at_start |-> <<>>,
     reads |-> <<>>]

\* the configuration values a stage reads
StageReads(stage, heap, worker) ==
    LET values == ConfigValues(heap, worker.tech_config, worker.model_config,
                               worker.trading_config)
    IN  CASE stage = "indicators" -> <<<<"rsi_period", values.rsi_period>>>>
          [] stage = "prediction" -> <<<<"prediction_horizon", values.prediction_horizon>>>>
          [] stage = "signals" -> <<<<"max_risk_per_trade", values.max_risk_per_trade>>>>
          [] OTHER -> <<>>

\* variant: a try block for each stage, the run goes on after the report
except_Exception_per_stage(worker, emitted, at_start) ==
    LET k == CHOOSE k \in DOMAIN Stages : Stages[k] = worker.pc
    IN  [worker EXCEPT !.pc = IF k < Len(Stages) THEN Stages[k + 1] ELSE "failed",
                       !.emitted = Append(emitted, <<"error_occurred">>),
                       !.at_start = at_start]

\* "except Exception as e: ... self.error_occurred.emit(str(e))", which ends
\* the run
except_Exception(worker, emitted, at_start) ==
    [worker EXCEPT !.pc = "failed",
                   !.emitted = Append(emitted, <<"error_occurred">>),
                   !.at_start = at_start]

\* QSpinBox.setValue: the value is brought into the range of the widget
SetValue(value, minimum, maximum) == Max(minimum, Min(maximum, value))

\* the values the user sets a widget to; the prediction horizon is left as
\* the dialog shows it
WidgetValues ==
    [rsi_period_spin |-> {DefaultRsiPeriod, 21},
     prediction_horizon_spin |-> {},
     max_risk_spin |-> {DefaultRisk, 50}]

\* load_current_settings, lines 368-402
load_current_settings(heap, current_settings) ==
    [open |-> TRUE,
     rsi_period_spin |-> SetValue(heap[current_settings.technical_config].rsi_period, 5, 50),
     prediction_horizon_spin |->
         SetValue(heap[current_settings.ml_model_config].prediction_horizon, 1, 48),
     max_risk_spin |->
         SetValue(heap[current_settings.trading_config].max_risk_per_trade, 5, 100)]

\* save_to_temp_settings, lines 416-449: the fields of the objects the
\* temporary settings refer to are assigned
save_to_temp_settings(heap, temp_settings, widgets) ==
    [id \in DOMAIN heap |->
        IF id = temp_settings.technical_config
        THEN [rsi_period |-> widgets.rsi_period_spin]
        ELSE IF id = temp_settings.ml_model_config
        THEN [prediction_horizon |-> widgets.prediction_horizon_spin]
        ELSE IF id = temp_settings.trading_config
        THEN [max_risk_per_trade |-> widgets.max_risk_spin]
        ELSE heap[id]]

(***************************************************************************)
(* States before a call                                                    *)
(***************************************************************************)
NoPrediction ==
    [direction |-> "SIDEWAYS", confidence |-> 0, target_price |-> None,
     time_horizon |-> <<0, "h">>, reasoning |-> <<>>]

NoSignal == HoldSignal("Weak", <<>>)

NoVotes == [rsi |-> "none", macd |-> "none", ma |-> "none"]

NoResults == [total_predictions |-> 0, backtest_period |-> <<"not run">>]

DefaultTradingConfig ==
    [max_risk_per_trade |-> DefaultRisk,
     stop_loss_multiplier |-> DefaultStopMult,
     take_profit_multiplier |-> DefaultProfitMult,
     signal_filters |-> [k \in FilterKeys |-> TRUE]]

\* the default risk with a stop-loss multiplier of 4.0 and a take-profit
\* multiplier of 2.5: their quotient, 0.625, lies halfway between two
\* hundredths
HalfwayConfig ==
    [DefaultTradingConfig EXCEPT !.stop_loss_multiplier = 8, !.take_profit_multiplier = 5]

\* every trading configuration at the ends and the default of each range,
\* and the halfway one
TradingConfigs ==
    [max_risk_per_trade : {MinRisk, DefaultRisk, MaxRisk},
     stop_loss_multiplier : {MinStopMult, DefaultStopMult, MaxStopMult},
     take_profit_multiplier : {MinProfitMult, DefaultProfitMult, MaxProfitMult},
     signal_filters : [FilterKeys -> BOOLEAN]]
    \cup {HalfwayConfig}

FilterConfigs ==
    {[DefaultTradingConfig EXCEPT !.signal_filters = f] : f \in [FilterKeys -> BOOLEAN]}

RECURSIVE Assignments(_, _)
\* the dicts with the keys given and, for each key k, a value of V[k]
Assignments(V, keys) ==
    IF keys = {} THEN {[k \in {} |-> 0]}
    ELSE LET key == CHOOSE k \in keys : TRUE
         IN  {f @@ (key :> v) : f \in Assignments(V, keys \ {key}), v \in V[key]}

\* every indicator set whose key k, when present, has a value in V[k]
IndicatorSets(V) == UNION {Assignments(V, D) : D \in SUBSET DOMAIN V}

\* predictions a caller can hand to generate_trading_signals
CallerPredictions(targets) ==
    [direction : Directions,
     confidence : {50, 59, 60, 80, 81},
     target_price : {None} \cup {Some(t) : t \in targets},
     time_horizon : {<<DefaultHorizon, "h">>},
     reasoning : {<<"caller">>}]

\* TechnicalAnalysisConfig, settings.py lines 23-40
DefaultTechConfig ==
    [indicators |-> [k \in {IndicatorFamilies[i] : i \in DOMAIN IndicatorFamilies} |-> TRUE],
     rsi_period |-> DefaultRsiPeriod,
     macd_periods |-> <<MacdFast, MacdSlow, MacdSignal>>,
     bb_period |-> DefaultBbPeriod,
     ma_periods |-> <<9, 21, 50, 200>>]

NoValidation == [is_valid |-> TRUE, warnings |-> <<>>, errors |-> <<>>, quality_score |-> 0]

\* no predictor method has been called
PredictorIdle ==
    /\ technical_analysis = <<>>
    /\ price_levels = <<>>
    /\ trading_config = DefaultTradingConfig
    /\ prediction_horizon = DefaultHorizon
    /\ prediction = NoPrediction
    /\ votes = NoVotes
    /\ bullish_signals = 0
    /\ bearish_signals = 0
    /\ base_signal = NoSignal
    /\ signal = NoSignal
    /\ actual_data = <<>>
    /\ simulation = <<>>
    /\ backtest_results = NoResults

\* no chart component has been called
ChartIdle ==
    /\ ohlc_data = <<>>
    /\ tech_config = DefaultTechConfig
    /\ TALIB_AVAILABLE = FALSE
    /\ raising = "none"
    /\ indicators = <<>>
    /\ patterns = <<>>
    /\ detectors_run = {}
    /\ validation_results = NoValidation

\* no window: the components are called directly
GuiIdle ==
    /\ app_settings = <<>>
    /\ configs = <<>>
    /\ dialog = [open |-> FALSE]
    /\ workers = <<>>
    /\ controls_enabled = TRUE
    /\ current_analysis = None
    /\ requests_left = 0

(***************************************************************************)
(* Actions                                                                 *)
(***************************************************************************)
predict_price_movement ==
    /\ pc = "predict"
    /\ LET current_price == GetDefault(price_levels, "current_price", DefaultCurrentPrice)
           vs == [rsi |-> RSIVote(technical_analysis),
                  macd |-> MACDVote(technical_analysis),
                  ma |-> MAVote(technical_analysis, current_price)]
           bullish == CountVotes(vs, "bullish")
           bearish == CountVotes(vs, "bearish")
       IN  /\ votes' = vs
           /\ bullish_signals' = bullish
           /\ bearish_signals' = bearish
           /\ \E p \in Predictions(bullish, bearish, current_price, prediction_horizon) :
                  prediction' = p
    /\ pc' = "signal"
    /\ UNCHANGED <<technical_analysis, price_levels, trading_config, prediction_horizon,
                   base_signal, signal, actual_data, simulation, backtest_results>>
    /\ UNCHANGED <<chartVars, guiVars>>

generate_trading_signals ==
    /\ pc = "signal"
    /\ \E base \in BaseSignals(prediction, trading_config) :
           /\ base_signal' = base
           /\ signal' = ApplyFilters(base, technical_analysis, trading_config)
    /\ pc' = "done"
    /\ UNCHANGED <<technical_analysis, price_levels, trading_config, prediction_horizon,
                   prediction, votes, bullish_signals, bearish_signals,
                   actual_data, simulation, backtest_results>>
    /\ UNCHANGED <<chartVars, guiVars>>

backtest_prediction ==
    /\ pc = "backtest"
    /\ \E report \in BacktestReports(prediction, actual_data,
                                     trading_config.max_risk_per_trade) :
           backtest_results' = report
    /\ pc' = "done"
    /\ UNCHANGED <<technical_analysis, price_levels, trading_config, prediction_horizon,
                   prediction, votes, bullish_signals, bearish_signals,
                   base_signal, signal, actual_data, simulation>>
    /\ UNCHANGED <<chartVars, guiVars>>

\* _calculate_backtest_metrics, lines 846-915, called at line 797 with the
\* lists of a simulation
calculate_backtest_metrics ==
    /\ pc = "metrics"
    /\ backtest_results' = _calculate_backtest_metrics(simulation)
    /\ pc' = "done"
    /\ UNCHANGED <<technical_analysis, price_levels, trading_config, prediction_horizon,
                   prediction, votes, bullish_signals, bearish_signals,
                   base_signal, signal, actual_data, simulation>>
    /\ UNCHANGED <<chartVars, guiVars>>

calculate_technical_indicators ==
    /\ pc = "indicators"
    /\ \E result \in IndicatorMaps(ohlc_data, tech_config, TALIB_AVAILABLE, raising) :
           indicators' = result
    /\ pc' = "done"
    /\ UNCHANGED <<ohlc_data, tech_config, TALIB_AVAILABLE, raising, patterns,
                   detectors_run, validation_results>>
    /\ UNCHANGED <<predictorVars, guiVars>>

detect_patterns ==
    /\ pc = "patterns"
    /\ \E result \in PatternsDetected(ohlc_data) :
           /\ patterns' = result.patterns
           /\ detectors_run' = result.detectors_run
    /\ pc' = "done"
    /\ UNCHANGED <<ohlc_data, tech_config, TALIB_AVAILABLE, raising, indicators,
                   validation_results>>
    /\ UNCHANGED <<predictorVars, guiVars>>

validate_extracted_data ==
    /\ pc = "validate"
    /\ validation_results' = ValidationResults(ohlc_data)
    /\ pc' = "done"
    /\ UNCHANGED <<ohlc_data, tech_config, TALIB_AVAILABLE, raising, indicators,
                   patterns, detectors_run>>
    /\ UNCHANGED <<predictorVars, guiVars>>

\* MainWindow.fetch_live_data, lines 835-863, with a symbol entered; the
\* Refresh actions call it whether or not the inputs are enabled, the modal
\* dialog keeps the user from all of them
fetch_live_data ==
    /\ ~dialog.open
    /\ requests_left > 0
    /\ requests_left' = requests_left - 1
    /\ controls_enabled' = FALSE
    /\ workers' = Append(workers, LiveDataWorker(Len(workers) + 1, app_settings.main))
    /\ UNCHANGED <<app_settings, configs, dialog, current_analysis>>
    /\ UNCHANGED <<predictorVars, pc, chartVars>>

\* LiveDataWorker.run, lines 45-86, one stage at a time: the stage is
\* announced, then it returns or an exception ends the run
run ==
    \E w \in DOMAIN workers :
        LET worker == workers[w]
            stage == worker.pc
            k == CHOOSE k \in DOMAIN Stages : Stages[k] = stage
            at_start == IF k = 1
                        THEN ConfigValues(configs, worker.tech_config, worker.model_config,
                                          worker.trading_config)
                        ELSE worker.at_start
            emitted == Append(worker.emitted, <<"progress_updated", StageProgress[k]>>)
        IN  /\ stage \in {Stages[i] : i \in DOMAIN Stages}
            /\ \/ workers' = [workers EXCEPT ![w] =
                       [worker EXCEPT
                           !.pc = IF k < Len(Stages) THEN Stages[k + 1] ELSE "completed",
                           !.emitted = IF k < Len(Stages) THEN emitted
                                       ELSE emitted \o <<<<"progress_updated", 100>>,
                                                         <<"analysis_completed",
                                                           worker.request>>>>,
                           !.at_start = at_start,
                           !.reads = worker.reads \o StageReads(stage, configs, worker)]]
               \/ workers' = [workers EXCEPT ![w] = except_Exception(worker, emitted, at_start)]
            /\ UNCHANGED <<app_settings, configs, dialog, controls_enabled,
                           current_analysis, requests_left>>
            /\ UNCHANGED <<predictorVars, pc, chartVars>>

\* MainWindow.live_analysis_complete, lines 875-891
live_analysis_complete ==
    \E w \in DOMAIN workers :
        /\ workers[w].pc = "completed"
        /\ current_analysis' = Some(workers[w].request)
        /\ controls_enabled' = TRUE
        /\ workers' = [workers EXCEPT ![w].pc = "finished"]
        /\ UNCHANGED <<app_settings, configs, dialog, requests_left>>
        /\ UNCHANGED <<predictorVars, pc, chartVars>>

\* MainWindow.live_analysis_error, lines 893-903
live_analysis_error ==
    \E w \in DOMAIN workers :
        /\ workers[w].pc = "failed"
        /\ controls_enabled' = TRUE
        /\ workers' = [workers EXCEPT ![w].pc = "finished"]
        /\ UNCHANGED <<app_settings, configs, dialog, current_analysis, requests_left>>
        /\ UNCHANGED <<predictorVars, pc, chartVars>>

\* MainWindow.show_settings and SettingsDialog.__init__: _copy_settings
\* makes the temporary settings refer to the objects of the current ones
\* (the objects AppSettings() made for them are dropped)
show_settings ==
    /\ ~dialog.open
    /\ app_settings' = [name \in {"main", "temp"} |-> app_settings.main]
    /\ dialog' = load_current_settings(configs, app_settings.main)
    /\ UNCHANGED <<configs, workers, controls_enabled, current_analysis, requests_left>>
    /\ UNCHANGED <<predictorVars, pc, chartVars>>

\* the user changes the value of a widget
edit_widget ==
    /\ dialog.open
    /\ \E widget \in DOMAIN WidgetValues :
           \E value \in WidgetValues[widget] \ {dialog[widget]} :
               dialog' = [dialog EXCEPT ![widget] = value]
    /\ UNCHANGED <<app_settings, configs, workers, controls_enabled, current_analysis,
                   requests_left>>
    /\ UNCHANGED <<predictorVars, pc, chartVars>>

\* SettingsDialog.apply_settings, lines 404-409, and the slot of its signal,
\* MainWindow.apply_new_settings, which keeps the same AppSettings object
apply_settings ==
    /\ dialog.open
    /\ configs' = save_to_temp_settings(configs, app_settings.temp, dialog)
    /\ app_settings' = [app_settings EXCEPT !.main = app_settings.temp]
    /\ UNCHANGED <<dialog, workers, controls_enabled, current_analysis, requests_left>>
    /\ UNCHANGED <<predictorVars, pc, chartVars>>

\* SettingsDialog.accept_settings, lines 411-414: apply_settings, then the
\* dialog closes
accept_settings ==
    /\ dialog.open
    /\ configs' = save_to_temp_settings(configs, app_settings.temp, dialog)
    /\ app_settings' = [name \in {"main"} |-> app_settings.temp]
    /\ dialog' = [open |-> FALSE]
    /\ UNCHANGED <<workers, controls_enabled, current_analysis, requests_left>>
    /\ UNCHANGED <<predictorVars, pc, chartVars>>

\* QDialog.reject, the Cancel button
reject ==
    /\ dialog.open
    /\ app_settings' = [name \in {"main"} |-> app_settings.main]
    /\ dialog' = [open |-> FALSE]
    /\ UNCHANGED <<configs, workers, controls_enabled, current_analysis, requests_left>>
    /\ UNCHANGED <<predictorVars, pc, chartVars>>

\* SettingsDialog.restore_defaults, lines 451-464, answered Yes: the
\* temporary settings refer to the objects of a new AppSettings(), and the
\* widgets are loaded from the current settings
restore_defaults ==
    /\ dialog.open
    /\ Len(configs) < Len(DefaultConfigs) * (1 + MaxRestores)
    /\ configs' = configs \o DefaultConfigs
    /\ app_settings' = [app_settings EXCEPT !.temp = AppSettings(Len(configs))]
    /\ dialog' = load_current_settings(configs, app_settings.main)
    /\ UNCHANGED <<workers, controls_enabled, current_analysis, requests_left>>
    /\ UNCHANGED <<predictorVars, pc, chartVars>>

(***************************************************************************)
(* SpecSignal: generate_trading_signals on a prediction of the caller.     *)
(* The inputs are drawn from two families: every prediction and risk       *)
(* configuration with the volume ratio varying, and every set of moving    *)
(* averages and volume ratio with the default risk configuration.          *)
(***************************************************************************)
InitSignal ==
    /\ pc = "signal"
    /\ \/ /\ prediction \in CallerPredictions({0, 1, 25, 500, 11000})
          /\ trading_config \in TradingConfigs
          /\ technical_analysis \in IndicatorSets([Volume_Ratio |-> {0, 11, 12}])
       \/ /\ prediction \in CallerPredictions({11000})
          /\ trading_config \in FilterConfigs
          /\ technical_analysis \in
                 IndicatorSets([MA_9 |-> 1..MaxPrice, MA_21 |-> 1..MaxPrice,
                                MA_50 |-> 1..MaxPrice, Volume_Ratio |-> {0, 11, 12}])
    /\ price_levels = <<>>
    /\ prediction_horizon = DefaultHorizon
    /\ votes = NoVotes
    /\ bullish_signals = 0
    /\ bearish_signals = 0
    /\ base_signal = NoSignal
    /\ signal = NoSignal
    /\ actual_data = <<>>
    /\ simulation = <<>>
    /\ backtest_results = NoResults
    /\ ChartIdle
    /\ GuiIdle

NextSignal == generate_trading_signals

SpecSignal == InitSignal /\ [][NextSignal]_vars

(***************************************************************************)
(* SpecPredict: the pipeline of LiveDataWorker.run, predict_price_movement *)
(* and then generate_trading_signals on its result.                        *)
(***************************************************************************)
InitPredict ==
    /\ pc = "predict"
    /\ technical_analysis \in
           IndicatorSets([RSI |-> {0, 29, 30, 70, 71}, MACD |-> {-1, 0, 1},
                          MACD_Signal |-> {-1, 0, 1},
                          MA_9 |-> 1..MaxPrice, MA_21 |-> 1..MaxPrice,
                          MA_50 |-> {1, MaxPrice}, Volume_Ratio |-> {11, 12}])
    /\ price_levels \in IndicatorSets([current_price |-> 1..MaxPrice])
    /\ trading_config = DefaultTradingConfig
    /\ prediction_horizon = DefaultHorizon
    /\ prediction = NoPrediction
    /\ votes = NoVotes
    /\ bullish_signals = 0
    /\ bearish_signals = 0
    /\ base_signal = NoSignal
    /\ signal = NoSignal
    /\ actual_data = <<>>
    /\ simulation = <<>>
    /\ backtest_results = NoResults
    /\ ChartIdle
    /\ GuiIdle

NextPredict == predict_price_movement \/ generate_trading_signals

SpecPredict == InitPredict /\ [][NextPredict]_vars

(***************************************************************************)
(* SpecBacktest: MainWindow.run_backtest hands backtest_prediction the     *)
(* Prediction of the current analysis and the bars of its chart.           *)
(***************************************************************************)
Shapes == {"flat", "rising", "falling", "zigzag", "step"}

\* close prices, in cents, of a series of n bars
Series(n, shape) ==
    [i \in 1..n |->
        IF shape = "rising" THEN 10000 + 100 * i
        ELSE IF shape = "falling" THEN 20000 - 100 * i
        ELSE IF shape = "zigzag" THEN 10000 + (i % 2)
        ELSE IF shape = "step" THEN (IF i < 25 THEN 10000 ELSE 10001)
        ELSE 10000]

InitBacktest ==
    /\ pc = "backtest"
    /\ prediction_horizon \in {1, 5, DefaultHorizon}
    /\ \E bullish \in 0..1, bearish \in 0..1 :
           prediction \in Predictions(bullish, bearish, 10000, prediction_horizon)
    /\ \E n \in 0..MaxBars, shape \in Shapes : actual_data = Series(n, shape)
    /\ simulation = <<>>
    /\ trading_config = DefaultTradingConfig
    /\ technical_analysis = <<>>
    /\ price_levels = <<>>
    /\ votes = NoVotes
    /\ bullish_signals = 0
    /\ bearish_signals = 0
    /\ base_signal = NoSignal
    /\ signal = NoSignal
    /\ backtest_results = NoResults
    /\ ChartIdle
    /\ GuiIdle

NextBacktest == backtest_prediction

SpecBacktest == InitBacktest /\ [][NextBacktest]_vars

(***************************************************************************)
(* SpecMetrics: _calculate_backtest_metrics on the lists of a simulation   *)
(* of 1..MaxSteps steps.  A step is what the loop body appends for a       *)
(* predicted direction, a price of 100.00 and a later price below, at or   *)
(* above it.                                                               *)
(***************************************************************************)
FuturePrices == {9900, 10000, 10100}

RECURSIVE Simulations(_)
Simulations(steps) ==
    IF steps = 0 THEN {<<>>}
    ELSE {Append(made, StepRecord(d, 10000, future_price, DefaultRisk)) :
             made \in Simulations(steps - 1), d \in Directions,
             future_price \in FuturePrices}

InitMetrics ==
    /\ pc = "metrics"
    /\ \E steps \in 1..MaxSteps : simulation \in Simulations(steps)
    /\ technical_analysis = <<>>
    /\ price_levels = <<>>
    /\ trading_config = DefaultTradingConfig
    /\ prediction_horizon = DefaultHorizon
    /\ prediction = NoPrediction
    /\ votes = NoVotes
    /\ bullish_signals = 0
    /\ bearish_signals = 0
    /\ base_signal = NoSignal
    /\ signal = NoSignal
    /\ actual_data = <<>>
    /\ backtest_results = NoResults
    /\ ChartIdle
    /\ GuiIdle

NextMetrics == calculate_backtest_metrics

SpecMetrics == InitMetrics /\ [][NextMetrics]_vars

(***************************************************************************)
(* SpecIndicators: calculate_technical_indicators on the bars of a chart,  *)
(* in either build (with and without TA-Lib), with no or one indicator     *)
(* family whose library call raises.                                       *)
(***************************************************************************)
VolumeShapes == {"none", "steady", "dry", "surge"}

\* bars whose closes are Series(n, shape): each opens at the close before it
Bars(n, shape, volume_shape) ==
    LET close == Series(n, shape)
    IN  [i \in 1..n |->
            LET open == IF i = 1 THEN close[1] ELSE close[i - 1]
            IN  [open |-> open,
                 high |-> Max(open, close[i]),
                 low |-> Min(open, close[i]),
                 close |-> close[i],
                 volume |-> IF volume_shape = "none" THEN 0
                            ELSE IF volume_shape = "dry" /\ i = n THEN 0
                            ELSE IF volume_shape = "surge" /\ i = n THEN 3000
                            ELSE 1000]]

\* the default configuration, the shortest RSI period, and two families off
TechConfigs ==
    {DefaultTechConfig,
     [DefaultTechConfig EXCEPT !.rsi_period = MinRsiPeriod],
     [DefaultTechConfig EXCEPT !.indicators["macd"] = FALSE,
                               !.indicators["stochastic"] = FALSE]}

InitIndicators ==
    /\ pc = "indicators"
    /\ \E n \in 0..MaxBars, shape \in Shapes, volume_shape \in VolumeShapes :
           ohlc_data = Bars(n, shape, volume_shape)
    /\ tech_config \in TechConfigs
    /\ TALIB_AVAILABLE \in BOOLEAN
    /\ raising \in {"none"} \cup {IndicatorFamilies[i] : i \in DOMAIN IndicatorFamilies}
    /\ indicators = <<>>
    /\ patterns = <<>>
    /\ detectors_run = {}
    /\ validation_results = NoValidation
    /\ PredictorIdle
    /\ GuiIdle

NextIndicators == calculate_technical_indicators

SpecIndicators == InitIndicators /\ [][NextIndicators]_vars

(***************************************************************************)
(* SpecPatterns: detect_patterns on the bars of a chart.  The detectors    *)
(* test ratios of prices only, so the bars are in whole currency units     *)
(* around 100: a trend, a wave, a range, three peaks, a last bar that      *)
(* leaves the range, channels whose highs and lows have slopes of their    *)
(* own, and a rise that stalls before a last bar more than 5% higher.      *)
(***************************************************************************)
PatternShapes ==
    {"flat", "uptrend", "downtrend", "weakening", "wave", "range", "peaks",
     "breakout", "breakdown", "spike", "spikes", "ascending", "descending",
     "symmetrical", "wedge", "widening", "drift", "stall"}

\* n bars, bar i dated i: each opens at the close before it, and its high
\* and low are those of its body unless the shape gives it a wick
PatternBars(n, shape, volume_shape) ==
    LET Tent(i, centre, height, step) == Max(0, height - step * Abs(i - centre))
        Close(i) ==
            CASE shape = "uptrend" -> 100 + i \div 2
              [] shape = "downtrend" -> 126 - i \div 2
              [] shape = "weakening" -> 100 + Min(i, 30) \div 2
              [] shape = "wave" -> 100 + Abs((i % 12) - 6)
              [] shape = "range" ->
                     LET phase == i % 20
                     IN  IF phase < 8 THEN 100
                         ELSE IF phase \in {8, 19} THEN 102
                         ELSE IF phase \in {9, 18} THEN 104
                         ELSE 106
              [] shape = "peaks" ->
                     100 + Tent(i, 10, 4, 1) + Tent(i, 18, 12, 3) + Tent(i, 27, 4, 1)
              [] shape \in {"breakout", "spike", "spikes"} -> IF i = n THEN 102 ELSE 100
              [] shape = "breakdown" -> IF i = n THEN 98 ELSE 100
              [] shape = "ascending" -> 102 + i \div 4
              [] shape = "descending" -> 120 - i \div 4
              [] shape = "symmetrical" -> 112
              [] shape = "wedge" -> 110
              [] shape = "widening" -> 105
              [] shape = "drift" -> 100 + i \div 10
              [] shape = "stall" -> 100 + Min(i, 30) + (IF i = n THEN 7 ELSE 0)
              [] OTHER -> 100
        Open(i) == IF i = 1 THEN Close(1) ELSE Close(i - 1)
        Top(i) == Max(Open(i), Close(i))
        Bottom(i) == Min(Open(i), Close(i))
        High(i) ==
            CASE shape = "peaks" /\ i \in {10, 18, 27} -> Top(i) + 1
              [] shape = "spike" /\ i = n - 7 -> 110
              [] shape = "spikes" /\ i \in {n - 9, n - 7} -> 110
              [] shape = "ascending" -> 116
              [] shape \in {"descending", "symmetrical", "wedge"} -> 125 - i \div 4
              [] shape = "widening" -> 110 + i \div 10
              [] OTHER -> Top(i)
        Low(i) ==
            CASE shape \in {"ascending", "symmetrical"} -> 100 + i \div 4
              [] shape = "descending" -> 100
              [] shape = "wedge" -> 100 + i \div 10
              [] shape = "widening" -> 100 - i \div 10
              [] OTHER -> Bottom(i)
    IN  [i \in 1..n |->
            [timestamp |-> i,
             open |-> Open(i),
             high |-> High(i),
             low |-> Low(i),
             close |-> Close(i),
             volume |-> IF volume_shape = "none" THEN 0
                        ELSE IF volume_shape = "dry" /\ i = n THEN 0
                        ELSE IF volume_shape = "surge" /\ i = n THEN 3000
                        ELSE 1000]]

InitPatterns ==
    /\ pc = "patterns"
    /\ \E n \in 0..MaxPatternBars, shape \in PatternShapes, volume_shape \in VolumeShapes :
           ohlc_data = PatternBars(n, shape, volume_shape)
    /\ tech_config = DefaultTechConfig
    /\ TALIB_AVAILABLE = FALSE
    /\ raising = "none"
    /\ indicators = <<>>
    /\ patterns = <<>>
    /\ detectors_run = {}
    /\ validation_results = NoValidation
    /\ PredictorIdle
    /\ GuiIdle

NextPatterns == detect_patterns

SpecPatterns == InitPatterns /\ [][NextPatterns]_vars

(***************************************************************************)
(* SpecBreakouts: detect_patterns on series of 20 and MaxBreakoutBars bars  *)
(* made for _detect_breakouts, which looks at the highs and lows of the    *)
(* recent period, without their order but for the last five, and at the    *)
(* last close.  A bar is narrow at 100, narrow at 104, or spans both; the  *)
(* bars before the last five are any number of each kind, the last five    *)
(* too, and the series closes at the low, the middle or the high of its    *)
(* last bar.                                                               *)
(***************************************************************************)
BarKinds == <<[low |-> 100, high |-> 100], [low |-> 100, high |-> 104],
              [low |-> 104, high |-> 104]>>

\* count bars: kinds[1] of the first kind, kinds[2] of the second, the others
\* of the third
KindsOf(count, kinds) ==
    [i \in 1..count |-> IF i <= kinds[1] THEN 1 ELSE IF i <= kinds[1] + kinds[2] THEN 2 ELSE 3]

BreakoutBars(n, before, last, last_close) ==
    LET kind == KindsOf(n - 5, before) \o KindsOf(5, last)
        Close(i) == IF i = n THEN last_close ELSE BarKinds[kind[i]].high
    IN  [i \in 1..n |->
            [timestamp |-> i,
             open |-> BarKinds[kind[i]].low,
             high |-> BarKinds[kind[i]].high,
             low |-> BarKinds[kind[i]].low,
             close |-> Close(i),
             volume |-> 1000]]

\* the ways to make count bars of the three kinds
KindCounts(count) == {k \in (0..count) \X (0..count) : k[1] + k[2] <= count}

\* the closes of the last bar
LastCloses == {100, 102, 104}

InitBreakouts ==
    /\ pc = "patterns"
    \* the shortest series of the claim, whose recent period is 15 bars, and
    \* the longest, whose recent period is 20
    /\ \E n \in {20, MaxBreakoutBars}, last_close \in LastCloses :
           \E before \in KindCounts(n - 5), last \in KindCounts(5) :
               /\ ohlc_data = BreakoutBars(n, before, last, last_close)
               /\ ohlc_data[n].low <= last_close
               /\ last_close <= ohlc_data[n].high
    /\ tech_config = DefaultTechConfig
    /\ TALIB_AVAILABLE = FALSE
    /\ raising = "none"
    /\ indicators = <<>>
    /\ patterns = <<>>
    /\ detectors_run = {}
    /\ validation_results = NoValidation
    /\ PredictorIdle
    /\ GuiIdle

NextBreakouts == detect_patterns

SpecBreakouts == InitBreakouts /\ [][NextBreakouts]_vars

(***************************************************************************)
(* SpecValidate: validate_extracted_data on a chart of up to MaxCandles    *)
(* bars, each a quiet bar at 100, a bar at 110, a bar at 125 (more than    *)
(* 20% from a close of 100) or a bar whose high lies below its body.       *)
(***************************************************************************)
Candles ==
    {[open |-> 100, high |-> 101, low |-> 99, close |-> 100, volume |-> 1000],
     [open |-> 110, high |-> 111, low |-> 109, close |-> 110, volume |-> 1000],
     [open |-> 125, high |-> 126, low |-> 124, close |-> 125, volume |-> 1000],
     [open |-> 100, high |-> 99, low |-> 98, close |-> 100, volume |-> 1000]}

InitValidate ==
    /\ pc = "validate"
    /\ \E n \in 0..MaxCandles : ohlc_data \in [1..n -> Candles]
    /\ tech_config = DefaultTechConfig
    /\ TALIB_AVAILABLE = FALSE
    /\ raising = "none"
    /\ indicators = <<>>
    /\ patterns = <<>>
    /\ detectors_run = {}
    /\ validation_results = NoValidation
    /\ PredictorIdle
    /\ GuiIdle

NextValidate == validate_extracted_data

SpecValidate == InitValidate /\ [][NextValidate]_vars

(***************************************************************************)
(* SpecSettings: the window with default settings, one analysis the user   *)
(* asks for, and the settings dialog, opened, edited, applied, restored    *)
(* and closed at any time.                                                 *)
(***************************************************************************)
InitSettings ==
    /\ pc = "window"
    /\ app_settings = [name \in {"main"} |-> AppSettings(0)]
    /\ configs = DefaultConfigs
    /\ dialog = [open |-> FALSE]
    /\ workers = <<>>
    /\ controls_enabled = TRUE
    /\ current_analysis = None
    /\ requests_left = 1
    /\ PredictorIdle
    /\ ChartIdle

NextSettings ==
    \/ fetch_live_data
    \/ run
    \/ live_analysis_complete
    \/ live_analysis_error
    \/ show_settings
    \/ edit_widget
    \/ apply_settings
    \/ accept_settings
    \/ reject
    \/ restore_defaults

SpecSettings == InitSettings /\ [][NextSettings]_vars

(***************************************************************************)
(* SpecWindow: the window with default settings and the analyses the user  *)
(* asks for, by the button, Enter or a Refresh action, while the workers   *)
(* run in their threads.                                                   *)
(***************************************************************************)
InitWindow ==
    /\ pc = "window"
    /\ app_settings = [name \in {"main"} |-> AppSettings(0)]
    /\ configs = DefaultConfigs
    /\ dialog = [open |-> FALSE]
    /\ workers = <<>>
    /\ controls_enabled = TRUE
    /\ current_analysis = None
    /\ requests_left = MaxRequests
    /\ PredictorIdle
    /\ ChartIdle

NextWindow ==
    \/ fetch_live_data
    \/ run
    \/ live_analysis_complete
    \/ live_analysis_error

SpecWindow == InitWindow /\ [][NextWindow]_vars

(***************************************************************************)
(* Properties of generate_trading_signals (SpecSignal)                     *)
(***************************************************************************)
Returned == pc = "done"

Rank(strength) == IF strength = "Strong" THEN 2 ELSE IF strength = "Medium" THEN 1 ELSE 0

\* x is a hundredth nearest to num/den
Nearest(x, num, den) == 2 * Abs(x * den - num) <= den

\* C2: a prediction with confidence < 0.6 yields HOLD with strength Weak, no
\* entry, stop-loss or take-profit and risk/reward 0, whatever its direction,
\* target, the indicators and the filters.
C2_LowConfidenceHolds ==
    (Returned /\ prediction.confidence < 60) =>
        /\ signal.action = "HOLD"
        /\ signal.strength = "Weak"
        /\ signal.entry_price = None
        /\ signal.stop_loss = None
        /\ signal.take_profit = None
        /\ signal.risk_reward_ratio = 0

C2_Witness ==
    /\ Returned
    /\ prediction.confidence = 59
    /\ prediction.direction = "UP"
    /\ prediction.target_price = Some(11000)
    /\ trading_config.signal_filters["trend_confirmation"]
    /\ trading_config.signal_filters["volume_confirmation"]
    /\ "Volume_Ratio" \in DOMAIN technical_analysis
    /\ signal.action = "HOLD"

\* The case of C4 and C5: a decided direction, confidence >= 0.6 and a
\* positive target price.
TradeCase(direction) ==
    /\ Returned
    /\ prediction.direction = direction
    /\ prediction.confidence >= 60
    /\ prediction.target_price # None
    /\ Val(prediction.target_price) > 0

\* entry, stop-loss and take-profit are present and are the hundredths nearest
\* to entry = num/50 x target, entry x (1 - side x risk x stopMult) and
\* entry x (1 + side x risk x profitMult); the ratio is the hundredth nearest to
\* (take - entry)/(entry - stop) = (risk x profitMult)/(risk x stopMult).
LevelsAsComputed(num, side) ==
    LET target == Val(prediction.target_price)
        risk == trading_config.max_risk_per_trade
        stopMult == trading_config.stop_loss_multiplier
        profitMult == trading_config.take_profit_multiplier
    IN  /\ signal.entry_price # None
        /\ signal.stop_loss # None
        /\ signal.take_profit # None
        /\ Nearest(Val(signal.entry_price), num * target, 50)
        /\ Nearest(Val(signal.stop_loss),
                   num * target * (1000 - side * ((risk * stopMult) \div 2)), 50000)
        /\ Nearest(Val(signal.take_profit),
                   num * target * (1000 + side * ((risk * profitMult) \div 2)), 50000)
        /\ Nearest(signal.risk_reward_ratio, 100 * risk * profitMult, risk * stopMult)

\* the scenario of the specification: target 110.0, risk 2%, stop x2, profit x3
BuyScenario ==
    (/\ prediction.target_price = Some(11000)
     /\ trading_config.max_risk_per_trade = 20
     /\ trading_config.stop_loss_multiplier = DefaultStopMult
     /\ trading_config.take_profit_multiplier = DefaultProfitMult) =>
        /\ signal.entry_price = Some(10780)
        /\ signal.stop_loss = Some(10349)
        /\ signal.take_profit = Some(11427)
        /\ signal.risk_reward_ratio = 150

\* C4 as claimed: an UP prediction with confidence >= 0.6 and a positive
\* target yields BUY with the rounded entry, stop-loss and take-profit, with
\* stop_loss < entry < take_profit, the ratio and the scenario's numbers.
C4_BuyLevelsStrict ==
    TradeCase("UP") =>
        /\ signal.action = "BUY"
        /\ LevelsAsComputed(49, 1)
        /\ Val(signal.stop_loss) < Val(signal.entry_price)
        /\ Val(signal.entry_price) < Val(signal.take_profit)
        /\ BuyScenario

\* C4 as amended: the same, but after rounding to cents the three prices are
\* only ordered stop_loss <= entry <= take_profit; the order is strict when
\* the prices differ by more than a cent before rounding.
C4_BuyLevels ==
    TradeCase("UP") =>
        LET target == Val(prediction.target_price)
            risk == trading_config.max_risk_per_trade
        IN  /\ signal.action = "BUY"
            /\ LevelsAsComputed(49, 1)
            /\ Val(signal.stop_loss) <= Val(signal.entry_price)
            /\ Val(signal.entry_price) <= Val(signal.take_profit)
            /\ (49 * target * risk * trading_config.stop_loss_multiplier > 100000
                   => Val(signal.stop_loss) < Val(signal.entry_price))
            /\ (49 * target * risk * trading_config.take_profit_multiplier > 100000
                   => Val(signal.entry_price) < Val(signal.take_profit))
            /\ BuyScenario

C4_Witness ==
    /\ TradeCase("UP")
    /\ prediction.target_price = Some(11000)
    /\ trading_config.max_risk_per_trade = 20
    /\ trading_config.stop_loss_multiplier = DefaultStopMult
    /\ trading_config.take_profit_multiplier = DefaultProfitMult
    /\ signal.action = "BUY"
    /\ signal.stop_loss = Some(10349)

\* C5: a DOWN prediction with confidence >= 0.6 and a positive target yields
\* SELL with entry = 1.02 x target above the target, stop-loss above entry, a
\* take-profit that is present and below entry, and the ratio
\* (entry - take)/(stop - entry), for every configuration in the ranges.
\* The prices are compared as returned, in whole cents: two prices that fall
\* in the same cent are not counted against the claim.
C5_SellLevels ==
    TradeCase("DOWN") =>
        /\ signal.action = "SELL"
        /\ LevelsAsComputed(51, -1)
        /\ Val(signal.entry_price) >= Val(prediction.target_price)
        /\ Val(signal.stop_loss) >= Val(signal.entry_price)
        /\ Val(signal.take_profit) <= Val(signal.entry_price)

\* C6: the filters leave action, entry, stop-loss, take-profit and ratio as
\* built and never make the strength stronger.
C6_FiltersOnlyDowngrade ==
    Returned =>
        /\ signal.action = base_signal.action
        /\ signal.entry_price = base_signal.entry_price
        /\ signal.stop_loss = base_signal.stop_loss
        /\ signal.take_profit = base_signal.take_profit
        /\ signal.risk_reward_ratio = base_signal.risk_reward_ratio
        /\ Rank(signal.strength) <= Rank(base_signal.strength)

C6_Witness ==
    /\ Returned
    /\ trading_config.signal_filters["trend_confirmation"]
    /\ trading_config.signal_filters["volume_confirmation"]
    /\ base_signal.action = "SELL"
    /\ base_signal.strength = "Strong"
    /\ signal.strength = "Medium"
    /\ {"MA_9", "MA_21", "MA_50", "Volume_Ratio"} \subseteq DOMAIN technical_analysis
    /\ Len(signal.reasoning) > Len(base_signal.reasoning)

\* C10: a returned signal without entry_price has risk/reward 0.
C10_NoEntryNoRatio ==
    (Returned /\ signal.entry_price = None) => signal.risk_reward_ratio = 0

C10_Witness ==
    /\ Returned
    /\ prediction.direction = "UP"
    /\ prediction.confidence = 81
    /\ prediction.target_price = None
    /\ signal.action = "BUY"
    /\ signal.entry_price = None

FilterOn(name) == GetDefault(trading_config.signal_filters, name, FALSE)

\* C11: with only the trend filter enabled and MA_9, MA_21, MA_50 present, a
\* BUY keeps its strength iff MA_9 > MA_21 > MA_50 and is Weak otherwise, a SELL
\* keeps it iff MA_9 < MA_21 < MA_50 and is Weak otherwise, a HOLD is returned
\* as built; with one of the three averages absent the signal is as built.
C11_TrendFilter ==
    (Returned /\ FilterOn("trend_confirmation") /\ ~FilterOn("volume_confirmation")) =>
        IF {"MA_9", "MA_21", "MA_50"} \subseteq DOMAIN technical_analysis
        THEN LET ma_9 == technical_analysis["MA_9"]
                 ma_21 == technical_analysis["MA_21"]
                 ma_50 == technical_analysis["MA_50"]
             IN  /\ signal.action = base_signal.action
                 /\ base_signal.action = "BUY" =>
                        signal.strength = IF ma_9 > ma_21 /\ ma_21 > ma_50
                                          THEN base_signal.strength ELSE "Weak"
                 /\ base_signal.action = "SELL" =>
                        signal.strength = IF ma_9 < ma_21 /\ ma_21 < ma_50
                                          THEN base_signal.strength ELSE "Weak"
                 /\ base_signal.action = "HOLD" => signal = base_signal
        ELSE signal = base_signal

C11_Witness ==
    /\ Returned
    /\ FilterOn("trend_confirmation")
    /\ ~FilterOn("volume_confirmation")
    /\ {"MA_9", "MA_21", "MA_50"} \subseteq DOMAIN technical_analysis
    /\ technical_analysis["MA_9"] > technical_analysis["MA_21"]
    /\ technical_analysis["MA_21"] = technical_analysis["MA_50"]
    /\ base_signal.action = "BUY"
    /\ base_signal.strength = "Strong"
    /\ signal.strength = "Weak"

\* C12: with only the volume filter enabled, a BUY or SELL whose indicator set
\* holds Volume_Ratio = r, r = 0 included, goes down exactly one step of
\* strength when r < 1.2 (Weak stays Weak) and keeps its strength when
\* r >= 1.2; without Volume_Ratio the signal is as built.
C12_VolumeFilter ==
    (/\ Returned
     /\ FilterOn("volume_confirmation")
     /\ ~FilterOn("trend_confirmation")
     /\ base_signal.action \in {"BUY", "SELL"}) =>
        IF "Volume_Ratio" \in DOMAIN technical_analysis
        THEN IF technical_analysis["Volume_Ratio"] < 12
             THEN Rank(signal.strength) =
                      IF Rank(base_signal.strength) > 0
                      THEN Rank(base_signal.strength) - 1 ELSE 0
             ELSE signal.strength = base_signal.strength
        ELSE signal = base_signal

(***************************************************************************)
(* Properties of predict_price_movement (SpecPredict)                      *)
(***************************************************************************)
Predicted == pc # "predict"

\* C3: the direction is SIDEWAYS iff the vote counts are equal, UP iff there
\* are more bullish votes, DOWN iff more bearish; SIDEWAYS has confidence 0.5.
C3_DirectionByVotes ==
    Predicted =>
        /\ prediction.direction = "SIDEWAYS" <=> bullish_signals = bearish_signals
        /\ prediction.direction = "UP" <=> bullish_signals > bearish_signals
        /\ prediction.direction = "DOWN" <=> bearish_signals > bullish_signals
        /\ prediction.direction = "SIDEWAYS" => prediction.confidence = 50

C3_Witness ==
    /\ Predicted
    /\ bullish_signals = 1
    /\ bearish_signals = 1
    /\ prediction.direction = "SIDEWAYS"

\* C7: an RSI key present with value v casts one bullish vote when v < 30, one
\* bearish vote when v > 70 and none in between, v = 0 included.
C7_RsiVote ==
    (Predicted /\ "RSI" \in DOMAIN technical_analysis) =>
        LET v == technical_analysis["RSI"]
        IN  votes.rsi = IF v < 30 THEN "bullish" ELSE IF v > 70 THEN "bearish" ELSE "none"

\* C8: with both MACD and MACD_Signal present, zero values included, there is
\* exactly one MACD vote, bullish if MACD > MACD_Signal and otherwise bearish;
\* with either key absent there is none.
C8_MacdVote ==
    Predicted =>
        IF {"MACD", "MACD_Signal"} \subseteq DOMAIN technical_analysis
        THEN votes.macd =
                 IF technical_analysis["MACD"] > technical_analysis["MACD_Signal"]
                 THEN "bullish" ELSE "bearish"
        ELSE votes.macd = "none"

\* C9: for UP and DOWN the confidence is min(0.9, 0.5 + 0.15 x |bullish -
\* bearish|); every confidence is one of 0.5, 0.65, 0.8, 0.9.
C9_Confidence ==
    Predicted =>
        LET diff == Abs(bullish_signals - bearish_signals)
        IN  /\ prediction.direction # "SIDEWAYS" =>
                   prediction.confidence = IF 50 + 15 * diff < 90 THEN 50 + 15 * diff ELSE 90
            /\ prediction.confidence \in {50, 65, 80, 90}

C9_Witness ==
    /\ Predicted
    /\ bullish_signals = 3
    /\ bearish_signals = 0
    /\ prediction.direction = "UP"
    /\ prediction.confidence = 90

(***************************************************************************)
(* Properties of backtest_prediction (SpecBacktest)                        *)
(***************************************************************************)
\* C1: on a series of n >= 30 bars with horizon h and n - h > 20 the report
\* counts one prediction per index 20 .. n-h-1, total_predictions = n - h - 20,
\* and its backtest_period is not "No data".
C1_OnePredictionPerIndex ==
    LET n == Len(actual_data)
        h == prediction_horizon
    IN  (Returned /\ n >= 30 /\ n - h > 20) =>
            /\ backtest_results.total_predictions = n - h - 20
            /\ backtest_results.backtest_period # <<"No data">>

\* C13: on a series of fewer than 30 bars, the empty and the absent one
\* included, backtest_prediction returns the empty report: backtest_period is
\* "No data" and every count and every ratio is 0.
C13_ShortSeriesEmptyReport ==
    (Returned /\ Len(actual_data) < 30) =>
        /\ backtest_results.backtest_period = <<"No data">>
        /\ DOMAIN backtest_results =
               {"accuracy", "total_predictions", "correct_predictions", "up_accuracy",
                "down_accuracy", "precision", "recall", "profit_loss", "total_trades",
                "winning_trades", "losing_trades", "win_rate", "avg_win", "avg_loss",
                "max_drawdown", "sharpe_ratio", "backtest_period"}
        /\ \A k \in {"total_predictions", "correct_predictions", "total_trades",
                     "winning_trades", "losing_trades"} : backtest_results[k] = 0
        /\ \A k \in {"accuracy", "up_accuracy", "down_accuracy", "precision", "recall",
                     "profit_loss", "win_rate", "avg_win", "avg_loss", "max_drawdown",
                     "sharpe_ratio"} : backtest_results[k][1] = 0

C13_Witness ==
    /\ Returned
    /\ Len(actual_data) = 29
    /\ backtest_results.backtest_period = <<"No data">>
    /\ backtest_results.total_predictions = 0

(***************************************************************************)
(* Properties of calculate_technical_indicators (SpecIndicators)           *)
(***************************************************************************)
FamilyKeys ==
    [moving_averages |-> {"MA_9", "MA_21", "MA_50", "MA_200"},
     rsi |-> {"RSI"},
     macd |-> {"MACD", "MACD_Signal", "MACD_Histogram"},
     bollinger_bands |-> {"BB_Upper", "BB_Middle", "BB_Lower"},
     volume |-> {"Volume_MA", "Volume_Ratio"},
     stochastic |-> {"Stoch_K", "Stoch_D"}]

\* C14: when the computation of one family raises, the map returned holds
\* the keys the same call returns when nothing raises, those of the failed
\* family excepted: the families computed before it and after it are there.
C14_FamiliesIsolated ==
    (Returned /\ raising # "none") =>
        \E unfailing \in IndicatorMaps(ohlc_data, tech_config, TALIB_AVAILABLE, "none") :
            DOMAIN indicators = DOMAIN unfailing \ FamilyKeys[raising]

\* the average loss over the RSI period of the bars is 0
AverageLossZero ==
    LET n == Len(ohlc_data)
    IN  /\ n >= tech_config.rsi_period
        /\ \A i \in Max(2, n - tech_config.rsi_period + 1)..n :
               ohlc_data[i].close >= ohlc_data[i - 1].close

\* the average volume of the last 10 bars is 0
AverageVolumeZero ==
    /\ Len(ohlc_data) >= 10
    /\ \A i \in (Len(ohlc_data) - 9)..Len(ohlc_data) : ohlc_data[i].volume = 0

\* C15: no value of the map returned is NaN or infinite; the key RSI is
\* absent when the average loss over the RSI period is 0, and the key
\* Volume_Ratio is absent when the 10-bar average volume is 0.
C15_NoDivisionByZero ==
    Returned =>
        /\ AverageLossZero => "RSI" \notin DOMAIN indicators
        /\ AverageVolumeZero => "Volume_Ratio" \notin DOMAIN indicators
        /\ \A k \in DOMAIN indicators : indicators[k].kind \notin {"nan", "inf"}

(***************************************************************************)
(* Properties of detect_patterns (SpecPatterns)                            *)
(***************************************************************************)
\* C16: for a series of fewer than 20 bars, the empty one included,
\* detect_patterns returns the empty list and runs none of the six detectors.
C16_ShortSeriesNoPatterns ==
    (Returned /\ Len(ohlc_data) < 20) => (patterns = <<>> /\ detectors_run = {})

\* 19 bars whose last close leaves the range: the breakout detector, which
\* accepts 15 bars, would have reported it
C16_Witness ==
    /\ Returned
    /\ Len(ohlc_data) = 19
    /\ ohlc_data[19].close > ohlc_data[18].high
    /\ patterns = <<>>

\* C18: every pattern detect_patterns returns, whichever detector found it,
\* has a confidence that is a number from 0 to 0.85.
C18_ConfidenceWithinCaps ==
    Returned =>
        \A i \in DOMAIN patterns :
            LET confidence == patterns[i].confidence
            IN  /\ confidence # None
                /\ confidence[1] >= 0
                /\ confidence[2] > 0
                /\ ~RatLess(<<17, 20>>, confidence)

\* a head 8% above its shoulders, capped at 0.8, after double bottoms
C18_Witness ==
    /\ Returned
    /\ \E i \in DOMAIN patterns : /\ patterns[i].name = "Head and Shoulders"
                                  /\ patterns[i].confidence = <<4, 5>>
    /\ \E i \in DOMAIN patterns : patterns[i].name = "Double Bottom"

\* the local extrema a double detector pairs: minima of the lows, maxima of the highs
DoubleExtrema(name) ==
    IF name = "Double Bottom" THEN LocalExtrema(Column(ohlc_data, "low"), -1)
    ELSE LocalExtrema(Column(ohlc_data, "high"), 1)

\* the bars at idx1 and idx2 differ by less than 2% and the opposing extreme
\* of the bars idx1 .. idx2 - 1 is more than 5% away
DoubleQualifies(name, idx1, idx2) ==
    LET highs == Column(ohlc_data, "high")
        lows == Column(ohlc_data, "low")
    IN  IF name = "Double Bottom"
        THEN /\ 50 * Abs(lows[idx1] - lows[idx2]) < lows[idx1]
             /\ 20 * (Highest(highs, idx1, idx2 - 1) - Min(lows[idx1], lows[idx2]))
                    > Min(lows[idx1], lows[idx2])
        ELSE /\ 50 * Abs(highs[idx1] - highs[idx2]) < highs[idx1]
             /\ 20 * (Min(highs[idx1], highs[idx2]) - Lowest(lows, idx1, idx2 - 1))
                    > Lowest(lows, idx1, idx2 - 1)

DoublePatterns(name) == SelectSeq(patterns, LAMBDA p : p.name = name)

\* the patterns of one double detector are those of the first qualifying
\* pairs: one for each position i that has a qualifying j > i, none else
FirstQualifyingPairs(name) ==
    LET extrema == DoubleExtrema(name)
        found == DoublePatterns(name)
        FirstFor(i, j) ==
            /\ i < j
            /\ DoubleQualifies(name, extrema[i], extrema[j])
            /\ \A k \in (i + 1)..(j - 1) : ~DoubleQualifies(name, extrema[i], extrema[k])
    IN  /\ \A a, b \in DOMAIN found :
               a # b => found[a].start_time # found[b].start_time
        /\ \A a \in DOMAIN found :
               \E i, j \in DOMAIN extrema :
                   /\ FirstFor(i, j)
                   /\ found[a].start_time = extrema[i]
                   /\ found[a].end_time = extrema[j]
                   /\ found[a].confidence =
                          IF 50 + 5 * (j - i) < 85 THEN Rat(50 + 5 * (j - i), 100)
                          ELSE <<17, 20>>
        /\ \A i, j \in DOMAIN extrema :
               FirstFor(i, j) => \E a \in DOMAIN found : found[a].start_time = extrema[i]

\* C20 as stated: in the double-bottom and double-top detectors every
\* position i of the local extrema gets at most one pattern, the one pairing
\* it with the first qualifying j > i at confidence min(0.85, 0.5 + 0.05 (j - i)),
\* and a detector emits at most (number of local extrema - 1) patterns.
C20_CountBelowExtrema ==
    (Returned /\ "double_bottom" \in detectors_run) =>
        \A name \in {"Double Bottom", "Double Top"} :
            /\ FirstQualifyingPairs(name)
            /\ Len(DoublePatterns(name)) <= Len(DoubleExtrema(name)) - 1

\* C20, amended: the same pairing, and a detector emits at most
\* max(0, number of local extrema - 1) patterns: none when the series has
\* no local extremum.
C20_FirstQualifyingPair ==
    (Returned /\ "double_bottom" \in detectors_run) =>
        \A name \in {"Double Bottom", "Double Top"} :
            /\ FirstQualifyingPairs(name)
            /\ Len(DoublePatterns(name)) <= Max(0, Len(DoubleExtrema(name)) - 1)

\* a double bottom whose second trough is not the next local minimum but
\* the one after it, and a double top in the same list
C20_Witness ==
    /\ Returned
    /\ \E i \in DOMAIN patterns : /\ patterns[i].name = "Double Bottom"
                                  /\ patterns[i].confidence = <<3, 5>>
    /\ \E i \in DOMAIN patterns : patterns[i].name = "Double Top"

(***************************************************************************)
(* Properties of validate_extracted_data (SpecValidate)                    *)
(***************************************************************************)
\* C17: for a non-empty series whose every bar satisfies
\* low <= min(open, close) <= max(open, close) <= high, the quality score
\* returned is exactly 1.0.
C17_ConsistentSeriesFullScore ==
    (/\ Returned
     /\ ohlc_data # <<>>
     /\ \A i \in DOMAIN ohlc_data :
            /\ ohlc_data[i].low <= Min(ohlc_data[i].open, ohlc_data[i].close)
            /\ Max(ohlc_data[i].open, ohlc_data[i].close) <= ohlc_data[i].high)
    => validation_results.quality_score = 100

(***************************************************************************)
(* Properties of the window and its settings dialog (SpecSettings)         *)
(***************************************************************************)
\* C19: from the start of an analysis run to its terminal signal, every
\* configuration value its extractor and predictor read is the value the
\* configuration had when the run started, whatever the user does in the
\* settings dialog meanwhile.
C19_ConfigStableDuringRun ==
    \A w \in DOMAIN workers :
        \A r \in DOMAIN workers[w].reads :
            workers[w].reads[r][2] = workers[w].at_start[workers[w].reads[r][1]]

(***************************************************************************)
(* Properties of _detect_triangles (SpecPatterns)                          *)
(***************************************************************************)
TriangleNames ==
    <<"Ascending Triangle", "Descending Triangle", "Symmetrical Triangle",
      "Consolidation Triangle">>

\* the triangle patterns of the list returned
Triangles == SelectSeq(patterns, LAMBDA p : \E k \in DOMAIN TriangleNames : p.name = TriangleNames[k])

\* the outcomes, by their position in TriangleNames, whose slope conditions
\* the highs and lows of the analysis period satisfy
TriangleOutcomes ==
    LET len == Len(ohlc_data)
        first == len - Min(50, Max(20, len \div 2)) + 1
        high == Fit(Column(ohlc_data, "high"), first, len)
        low == Fit(Column(ohlc_data, "low"), first, len)
        total == Sum(Column(ohlc_data, "close"), first, len)
        \* 100 * (2 A / B) / (total / n) against 0.15, 0.05 and -0.05
        Flat(fit) == 4000 * fit.n * Abs(fit.A) < 3 * fit.B * total
        Rising(fit) == 4000 * fit.n * fit.A > fit.B * total
        Falling(fit) == 4000 * fit.n * (0 - fit.A) > fit.B * total
    IN  {k \in DOMAIN TriangleNames :
            CASE k = 1 -> Flat(high) /\ Rising(low)
              [] k = 2 -> Falling(high) /\ Flat(low)
              [] k = 3 -> Falling(high) /\ Rising(low)
              [] k = 4 -> Flat(high) /\ Flat(low)}

\* one of the two squared correlations exceeds 0.15
TriangleFitMeaningful ==
    LET len == Len(ohlc_data)
        first == len - Min(50, Max(20, len \div 2)) + 1
    IN  \/ Greater(RSquared(Fit(Column(ohlc_data, "high"), first, len)), <<3, 20>>)
        \/ Greater(RSquared(Fit(Column(ohlc_data, "low"), first, len)), <<3, 20>>)

\* C21: _detect_triangles emits at most one pattern; when the slopes satisfy
\* the conditions of several outcomes, the earliest of ascending,
\* descending, symmetrical, consolidation is the one emitted; and nothing is
\* emitted when neither squared correlation exceeds 0.15.
C21_EarliestTriangleOnly ==
    (Returned /\ Len(ohlc_data) >= 20) =>
        /\ Len(Triangles) <= 1
        /\ ~TriangleFitMeaningful => Triangles = <<>>
        /\ Triangles # <<>> =>
               /\ TriangleOutcomes # {}
               /\ \E k \in TriangleOutcomes :
                      /\ Triangles[1].name = TriangleNames[k]
                      /\ \A j \in TriangleOutcomes : k <= j

\* the highs fall and the lows rise slowly enough to count as flat too: the
\* descending and the symmetrical conditions both hold, descending is emitted
C21_Witness ==
    /\ Returned
    /\ Len(ohlc_data) >= 20
    /\ {2, 3} \subseteq TriangleOutcomes
    /\ Len(Triangles) = 1
    /\ Triangles[1].name = "Descending Triangle"

(***************************************************************************)
(* Properties of _detect_breakouts (SpecBreakouts)                         *)
(***************************************************************************)
Breakouts(list) ==
    SelectSeq(list, LAMBDA p : p.name \in {"Minor Resistance Breakout",
                                           "Moderate Resistance Breakout",
                                           "Strong Resistance Breakout"})

Breakdowns(list) ==
    SelectSeq(list, LAMBDA p : p.name \in {"Minor Support Breakdown",
                                           "Moderate Support Breakdown",
                                           "Strong Support Breakdown"})

\* C22, as stated: there is a series of at least 20 bars (here: as long as
\* the chart at hand), with positive prices and low <= high in every bar,
\* for which one _detect_breakouts call emits both a Resistance Breakout and
\* a Support Breakdown.
C22_BothCanFire ==
    \E before \in KindCounts(Len(ohlc_data) - 5), last \in KindCounts(5),
       last_close \in LastCloses :
        LET found == _detect_breakouts(BreakoutBars(Len(ohlc_data), before, last, last_close))
        IN  Breakouts(found) # <<>> /\ Breakdowns(found) # <<>>

\* C22, amended: for a series of at least 20 bars with positive prices and
\* low <= high in every bar, a call never emits both a Resistance Breakout
\* and a Support Breakdown; it emits at most one of each.
C22_NeverBoth ==
    (Returned /\ Len(ohlc_data) >= 20) =>
        /\ Len(Breakouts(patterns)) <= 1
        /\ Len(Breakdowns(patterns)) <= 1
        /\ Breakouts(patterns) = <<>> \/ Breakdowns(patterns) = <<>>

\* the close is above the highs before the last five bars and below a
\* percentile of the highs: a breakout is emitted, no breakdown
C22_Witness ==
    /\ Returned
    /\ Len(ohlc_data) >= 20
    /\ Len(Breakouts(patterns)) = 1
    /\ Breakdowns(patterns) = <<>>
    /\ \E i \in DOMAIN ohlc_data : ohlc_data[i].high > ohlc_data[Len(ohlc_data)].close

(***************************************************************************)
(* Properties of _detect_trend_channels (SpecPatterns)                     *)
(***************************************************************************)
\* the patterns of _detect_trend_channels in the list returned
TrendPatterns ==
    SelectSeq(patterns, LAMBDA p : p.name \in {"Uptrend Channel", "Downtrend Channel",
                                               "Trend Weakening"})

ShortFit == Fit(Column(ohlc_data, "close"), Len(ohlc_data) - 19, Len(ohlc_data))

LongFit == Fit(Column(ohlc_data, "close"), Len(ohlc_data) - 49, Len(ohlc_data))

\* at least 50 bars, and the magnitude of the 20-bar slope is below 30% of
\* the magnitude of the 50-bar slope (the slopes are 2 A / B)
ShortSlopeWeak ==
    /\ Len(ohlc_data) >= 50
    /\ 10 * Abs(ShortFit.A) * LongFit.B < 3 * Abs(LongFit.A) * ShortFit.B

\* the Trend Weakening pattern whose direction is that of the long slope
IsWeakening(p) ==
    /\ p.name = "Trend Weakening"
    /\ p.description = <<IF LongFit.A > 0 THEN "bullish" ELSE "bearish">>

\* 20 * (closes[-1] - closes[-20]) / closes[-20], against 1 and -1
PriceChange20 ==
    LET first == ohlc_data[Len(ohlc_data) - 19].close
        last == ohlc_data[Len(ohlc_data)].close
    IN  IF 20 * (last - first) > first THEN 1
        ELSE IF 20 * (first - last) > first THEN -1 ELSE 0

PredictedAs(d) == {k \in DOMAIN simulation : simulation[k].predicted = d}

CorrectAs(d) == {k \in PredictedAs(d) : simulation[k].actual = d}

\* ratio is num / den; 0.0 when den is 0
IsFraction(ratio, num, den) ==
    IF den = 0 THEN ratio[1] = 0 ELSE ratio[1] * den = num * ratio[2]

\* C24: the report of _calculate_backtest_metrics is consistent with the
\* lists it is built from: correct_predictions <= total_predictions and
\* accuracy = correct / total; up_accuracy (down_accuracy) is the fraction of
\* the UP (DOWN) predictions whose outcome was UP (DOWN), 0 when there is
\* none; winning_trades + losing_trades <= total_trades and win_rate =
\* winning_trades / total_trades; and the simulation has recorded a trade
\* exactly for each prediction other than SIDEWAYS.
C24_ReportConsistent ==
    (pc = "done" /\ simulation # <<>>) =>
        LET r == backtest_results
        IN  /\ r.total_predictions = Len(simulation)
            /\ r.correct_predictions = Cardinality(UNION {CorrectAs(d) : d \in Directions})
            /\ r.correct_predictions <= r.total_predictions
            /\ IsFraction(r.accuracy, r.correct_predictions, r.total_predictions)
            /\ IsFraction(r.up_accuracy, Cardinality(CorrectAs("UP")),
                          Cardinality(PredictedAs("UP")))
            /\ IsFraction(r.down_accuracy, Cardinality(CorrectAs("DOWN")),
                          Cardinality(PredictedAs("DOWN")))
            /\ r.winning_trades + r.losing_trades <= r.total_trades
            /\ IsFraction(r.win_rate, r.winning_trades, r.total_trades)
            /\ \A k \in DOMAIN simulation :
                   Len(simulation[k].trades) =
                       IF simulation[k].predicted = "SIDEWAYS" THEN 0 ELSE 1
            /\ r.total_trades = Cardinality(PredictedAs("UP") \cup PredictedAs("DOWN"))

\* two UP predictions, one right and one wrong, and a SIDEWAYS one: half the
\* UP predictions were right, one trade won, one lost, none for SIDEWAYS
C24_Witness ==
    /\ pc = "done"
    /\ Cardinality(PredictedAs("UP")) = 2
    /\ Cardinality(CorrectAs("UP")) = 1
    /\ Cardinality(PredictedAs("SIDEWAYS")) = 1
    /\ backtest_results.total_predictions = 3
    /\ backtest_results.up_accuracy = <<1, 2>>
    /\ backtest_results.total_trades = 2
    /\ backtest_results.winning_trades = 1
    /\ backtest_results.losing_trades = 1

(***************************************************************************)
(* Properties of the pipeline, predict_price_movement and then             *)
(* generate_trading_signals (SpecPredict)                                  *)
(***************************************************************************)
\* C25: in the pipeline a SIDEWAYS prediction always yields HOLD with
\* strength Weak, and no signal is HOLD with strength Medium: every SIDEWAYS
\* prediction has confidence 0.5, below 0.6.
C25_SidewaysHoldsWeak ==
    Returned =>
        /\ prediction.direction = "SIDEWAYS" =>
               /\ prediction.confidence < LowConfidence
               /\ signal.action = "HOLD"
               /\ signal.strength = "Weak"
        /\ ~(signal.action = "HOLD" /\ signal.strength = "Medium")
        /\ ~(base_signal.action = "HOLD" /\ base_signal.strength = "Medium")

\* a tie of one bullish and one bearish vote, with both filters configured
\* and their indicators present
C25_Witness ==
    /\ Returned
    /\ bullish_signals = 1
    /\ bearish_signals = 1
    /\ prediction.direction = "SIDEWAYS"
    /\ {"MA_50", "Volume_Ratio"} \subseteq DOMAIN technical_analysis
    /\ signal.action = "HOLD"
    /\ signal.strength = "Weak"

\* C26: in the pipeline a signal is Strong only if the three indicator
\* groups voted for the same direction (vote difference 3); a difference of
\* 2 gives confidence exactly 0.8, not above the threshold, and Medium as
\* built.
C26_StrongNeedsThreeVotes ==
    Returned =>
        LET diff == Abs(bullish_signals - bearish_signals)
        IN  /\ signal.strength = "Strong" =>
                   /\ diff = 3
                   /\ votes.rsi = votes.macd
                   /\ votes.macd = votes.ma
                   /\ votes.rsi \in {"bullish", "bearish"}
            /\ base_signal.strength = "Strong" => diff = 3
            /\ diff = 2 =>
                   /\ prediction.confidence = StrongConfidence
                   /\ base_signal.strength = "Medium"

\* two bullish votes and none bearish: BUY, of strength Medium
C26_Witness ==
    /\ Returned
    /\ bullish_signals = 2
    /\ bearish_signals = 0
    /\ prediction.confidence = StrongConfidence
    /\ signal.action = "BUY"
    /\ signal.strength = "Medium"

(***************************************************************************)
(* Properties of the risk/reward ratio (SpecSignal)                        *)
(***************************************************************************)
\* a BUY or SELL signal with entry, stop-loss and take-profit
FullTrade ==
    /\ Returned
    /\ signal.action \in {"BUY", "SELL"}
    /\ signal.entry_price # None
    /\ signal.stop_loss # None
    /\ signal.take_profit # None

\* num/den in hundredths, a tie going to the even hundredth
RoundHalfEven(num, den) ==
    LET q == (100 * num) \div den
        twice == 2 * ((100 * num) % den)
    IN  IF twice < den THEN q
        ELSE IF twice > den THEN q + 1
        ELSE IF q % 2 = 0 THEN q ELSE q + 1

\* take_profit_multiplier / stop_loss_multiplier is halfway between two
\* hundredths
RatioHalfway ==
    (200 * trading_config.take_profit_multiplier) % trading_config.stop_loss_multiplier = 0
    /\ ((200 * trading_config.take_profit_multiplier)
            \div trading_config.stop_loss_multiplier) % 2 = 1

\* C27 as stated: for every BUY or SELL signal with entry, stop-loss and
\* take-profit, the risk/reward ratio is take_profit_multiplier /
\* stop_loss_multiplier rounded to 2 decimals, whatever the target price, the
\* risk per trade and the direction.
C27_RatioOfMultipliers ==
    FullTrade =>
        signal.risk_reward_ratio =
            RoundHalfEven(trading_config.take_profit_multiplier,
                          trading_config.stop_loss_multiplier)

\* C27, amended: for every BUY or SELL signal with entry, stop-loss and
\* take-profit, the risk/reward ratio is a hundredth nearest to
\* take_profit_multiplier / stop_loss_multiplier: the rounded quotient, or
\* either of the two neighbouring hundredths when the quotient lies halfway
\* between them, where the ratio computed from the prices decides.
C27_RatioNearMultipliers ==
    FullTrade =>
        /\ Nearest(signal.risk_reward_ratio,
                   100 * trading_config.take_profit_multiplier,
                   trading_config.stop_loss_multiplier)
        /\ ~RatioHalfway =>
               signal.risk_reward_ratio =
                   RoundHalfEven(trading_config.take_profit_multiplier,
                                 trading_config.stop_loss_multiplier)

\* the scenario of the specification with the multipliers 4.0 and 2.5, whose
\* quotient is 0.625: a BUY with the ratio 0.63
C27_Witness ==
    /\ FullTrade
    /\ signal.action = "BUY"
    /\ prediction.target_price = Some(11000)
    /\ trading_config = HalfwayConfig
    /\ RatioHalfway
    /\ signal.risk_reward_ratio = 63

(***************************************************************************)
(* Properties of the analysis workers (SpecWindow)                         *)
(***************************************************************************)
\* run has not ended
Running(worker) == worker.pc \in {Stages[k] : k \in DOMAIN Stages}

TerminalSignals == {"analysis_completed", "error_occurred"}

\* the positions of the terminal signals a worker has emitted
Terminals(worker) ==
    {i \in DOMAIN worker.emitted : worker.emitted[i][1] \in TerminalSignals}

\* the progress a run reports when no stage raises
FullProgress ==
    [k \in 1..Len(Stages) + 1 |->
        <<"progress_updated", IF k <= Len(Stages) THEN StageProgress[k] ELSE 100>>]

\* C28: a run of LiveDataWorker emits exactly one of analysis_completed and
\* error_occurred, as its last signal; analysis_completed comes only after
\* the progress 20, 50, 70, 85, 95, 100 in that order; when a stage raises,
\* error_occurred follows the progress of that stage, no later stage runs
\* and no result is published.
C28_OneTerminalSignal ==
    \A w \in DOMAIN workers :
        LET worker == workers[w]
            emitted == worker.emitted
            n == Len(emitted)
        IN  /\ Running(worker) => Terminals(worker) = {}
            /\ ~Running(worker) => Terminals(worker) = {n}
            /\ (n > 0 /\ emitted[n][1] = "analysis_completed") =>
                    /\ SubSeq(emitted, 1, n - 1) = FullProgress
                    /\ emitted[n] = <<"analysis_completed", worker.request>>
            /\ (n > 0 /\ emitted[n][1] = "error_occurred") =>
                    /\ n - 1 \in DOMAIN Stages
                    /\ SubSeq(emitted, 1, n - 1) = SubSeq(FullProgress, 1, n - 1)
                    /\ Len(worker.reads) <= n - 2
                    /\ current_analysis # Some(worker.request)

\* one run that raised in its third stage and one that completed
C28_Witness ==
    \E v, w \in DOMAIN workers :
        /\ workers[v].emitted = SubSeq(FullProgress, 1, 3) \o <<<<"error_occurred">>>>
        /\ workers[v].pc = "finished"
        /\ workers[w].emitted = FullProgress \o <<<<"analysis_completed", w>>>>
        /\ workers[w].pc = "finished"
        /\ current_analysis = Some(w)

\* C29: at most one worker is running at any time, and the inputs stay
\* disabled while a worker is running.
C29_OneWorkerAtATime ==
    /\ Cardinality({w \in DOMAIN workers : Running(workers[w])}) <= 1
    /\ (\E w \in DOMAIN workers : Running(workers[w])) => ~controls_enabled

\* every analysis started has been handled by the window
AllFinished ==
    /\ workers # <<>>
    /\ \A w \in DOMAIN workers : workers[w].pc = "finished"

\* C30: once every analysis started has finished, and the one asked for
\* last has completed, current_analysis is the result of that one.
C30_LatestResultWins ==
    (AllFinished /\ Terminals(workers[Len(workers)]) # {}
        /\ workers[Len(workers)].emitted[Len(workers[Len(workers)].emitted)][1]
               = "analysis_completed") =>
        current_analysis = Some(Len(workers))

====
